---- MODULE Spec2Model ----
(***************************************************************************)
(* FormatLab Studio backend: the SceneGraph patch engine (patcher.py), the *)
(* rule-based translator (routers/translate.py), the LLM translator with   *)
(* its fallback chain (cerebras_translator.py) and the drift analyzer      *)
(* (drift.py).                                                             *)
(*                                                                         *)
(* Python objects live in a heap: a dict is an object with an address, and *)
(* a variable or a dict slot holding a dict holds its address.  Scalars    *)
(* are immutable and are held by value.                                    *)
(***************************************************************************)
EXTENDS Integers, Sequences, FiniteSets, TLC

VARIABLES
    heap,       \* Python heap: sequence of dict objects, address = index
    scene,      \* the caller's SceneGraph (base_scene / original / current_scene)
    other,      \* the caller's second SceneGraph (modified)
    patch,      \* the caller's list of RFC6902 operations
    instruction,\* the natural-language instruction (sequence of characters)
    llm,        \* settings and behaviour of the external LLM service
    order,      \* iteration order of Python sets of keys (hash order)
    calls,      \* names of the operations that have returned, in call order
    ret,        \* what the operation returned or raised
    scene0,     \* value of the caller's scene when the operation was called
    ret0,       \* value of the returned document when the operation returned
    touched,    \* what the caller mutated after the call ("none", "ret", "scene")
    bounds,     \* the bounds argument of calculate_bounded_drift
    file,       \* storage/timeline.jsonl: the pieces written to it, or NoFile
    writers,    \* the appends to the timeline that are under way
    appended,   \* the entries whose append has completed, in order
    reads,      \* what each completed get_all_entries returned, in call order
    outbox,     \* the requests sent to the n8n workflows, in order
    served,     \* the request a route has served: its body, the N8N_ENABLED
                \* setting and what the webhook did; NoValue before
    fibo        \* the call of generate_with_fibo_or_demo: where it is, its
                \* poll_count, whether an image was downloaded, what it returned

vars == <<heap, scene, other, patch, instruction, llm, order, calls, ret, scene0, ret0, touched,
          bounds, file, writers, appended, reads, outbox, served, fibo>>

\* the timeline and the drift bounds, which the patch engine and the
\* translators never touch
store_vars == <<bounds, file, writers, appended, reads, outbox, served, fibo>>

(***************************************************************************)
(* Python / JSON values.  A value is a record [t, v]; numbers are kept in  *)
(* hundredths so that 0.95 and 100 are both integers of the model.         *)
(***************************************************************************)
PyInt(n)   == [t |-> "int",   v |-> n * 100]
PyFloat(h) == [t |-> "float", v |-> h]
PyBool(b)  == [t |-> "bool",  v |-> IF b THEN 100 ELSE 0]
PyStr(s)   == [t |-> "str",   v |-> s]
PyNone     == [t |-> "null",  v |-> 0]
MkDict(f)  == [t |-> "dict",  v |-> f]
Ref(a)     == [t |-> "ref",   v |-> a]
EmptyDict  == MkDict(<<>>)

IsDict(x) == x.t = "dict"
\* isinstance(x, (int, float)): bool is a subclass of int in Python
IsNumber(x) == x.t \in {"int", "float", "bool"}

SetKey(f, k, x) == [j \in (DOMAIN f) \cup {k} |-> IF j = k THEN x ELSE f[j]]
DelKey(f, k)    == [j \in (DOMAIN f) \ {k} |-> f[j]]

\* Python's == on JSON values: numbers compare by magnitude (1 == 1.0 == True),
\* dicts compare key-wise.
RECURSIVE PyEq(_, _)
PyEq(a, b) ==
    IF IsNumber(a) /\ IsNumber(b) THEN a.v = b.v
    ELSE IF a.t # b.t THEN FALSE
    ELSE IF IsDict(a)
         THEN /\ DOMAIN a.v = DOMAIN b.v
              /\ \A k \in DOMAIN a.v : PyEq(a.v[k], b.v[k])
    ELSE a.v = b.v

(***************************************************************************)
(* The heap.                                                               *)
(***************************************************************************)
\* An arbitrary but fixed enumeration of a finite set
RECURSIVE SetToSeq(_)
SetToSeq(S) ==
    IF S = {} THEN <<>>
    ELSE LET x == CHOOSE y \in S : TRUE IN <<x>> \o SetToSeq(S \ {x})

\* The value (a tree) that a heap value denotes
RECURSIVE Deep(_, _)
Deep(h, x) ==
    IF x.t = "ref"
    THEN MkDict([k \in DOMAIN h[x.v] |-> Deep(h, h[x.v][k])])
    ELSE x

\* Build a value in fresh objects; returns the new heap and the heap value
RECURSIVE Alloc(_, _), AllocFields(_, _, _, _)
AllocFields(h, d, ks, acc) ==
    IF ks = <<>> THEN [h |-> h, obj |-> acc]
    ELSE LET r == Alloc(h, d[Head(ks)])
         IN  AllocFields(r.h, d, Tail(ks), SetKey(acc, Head(ks), r.x))
Alloc(h, val) ==
    IF ~IsDict(val) THEN [h |-> h, x |-> val]
    ELSE LET r == AllocFields(h, val.v, SetToSeq(DOMAIN val.v), <<>>)
         IN  [h |-> Append(r.h, r.obj), x |-> Ref(Len(r.h) + 1)]

\* dict.copy(): a new top-level object whose slots hold the same values, so
\* nested dicts are shared with the original
dict_copy(h, x) == [h |-> Append(h, h[x.v]), x |-> Ref(Len(h) + 1)]

\* a copy that is one level deep only (copy.copy in place of copy.deepcopy)
deepcopy_shallow(h, x) == dict_copy(h, x)

\* copy.deepcopy(x)
deepcopy(h, x) == Alloc(h, Deep(h, x))

(***************************************************************************)
(* RFC6902 as the jsonpatch library implements it (patcher.py hands every  *)
(* patch to jsonpatch.JsonPatch).  A JSON pointer is kept parsed: its      *)
(* reference tokens, or the fact that the text is no pointer at all.       *)
(***************************************************************************)
Ptr(parts)    == [kind |-> "ptr",       parts |-> parts]
BadPtr(parts) == [kind |-> "malformed", parts |-> parts]  \* text not starting with "/"
NoPtr         == [kind |-> "absent",    parts |-> <<>>]   \* the member is missing
NoValue       == [t |-> "absent", v |-> 0]                \* the member is missing

ValidOps == {"add", "remove", "replace", "move", "copy", "test"}

OpAdd(p, x)     == [op |-> "add",     path |-> Ptr(p), from |-> NoPtr,  value |-> x]
OpRemove(p)     == [op |-> "remove",  path |-> Ptr(p), from |-> NoPtr,  value |-> NoValue]
OpReplace(p, x) == [op |-> "replace", path |-> Ptr(p), from |-> NoPtr,  value |-> x]
OpMove(f, p)    == [op |-> "move",    path |-> Ptr(p), from |-> Ptr(f), value |-> NoValue]
OpCopy(f, p)    == [op |-> "copy",    path |-> Ptr(p), from |-> Ptr(f), value |-> NoValue]
OpTest(p, x)    == [op |-> "test",    path |-> Ptr(p), from |-> NoPtr,  value |-> x]

Front(s) == SubSeq(s, 1, Len(s) - 1)
Last(s)  == s[Len(s)]
IsPrefix(p, q) == Len(p) <= Len(q) /\ SubSeq(q, 1, Len(p)) = p

\* JsonPointer.resolve: walk the reference tokens down the document
RECURSIVE Resolve(_, _)
Resolve(doc, parts) ==
    IF parts = <<>> THEN [found |-> TRUE, val |-> doc]
    ELSE IF IsDict(doc) /\ Head(parts) \in DOMAIN doc.v
         THEN Resolve(doc.v[Head(parts)], Tail(parts))
    ELSE [found |-> FALSE, val |-> PyNone]

\* JsonPointer.to_last succeeds on a mapping: the parent resolves and is a dict
ParentIsDict(doc, parts) ==
    /\ parts # <<>>
    /\ LET r == Resolve(doc, Front(parts)) IN r.found /\ IsDict(r.val)

HasMember(doc, parts) == ParentIsDict(doc, parts) /\ Resolve(doc, parts).found

\* subobj[part] = value / del subobj[part], on the document that holds subobj
RECURSIVE Put(_, _, _)
Put(doc, parts, x) ==
    IF Len(parts) = 1 THEN MkDict(SetKey(doc.v, parts[1], x))
    ELSE MkDict(SetKey(doc.v, parts[1], Put(doc.v[parts[1]], Tail(parts), x)))

RECURSIVE Del(_, _)
Del(doc, parts) ==
    IF Len(parts) = 1 THEN MkDict(DelKey(doc.v, parts[1]))
    ELSE MkDict(SetKey(doc.v, parts[1], Del(doc.v[parts[1]], Tail(parts))))

Done(doc)   == [ok |-> TRUE,  doc |-> doc]
Failed(doc) == [ok |-> FALSE, doc |-> doc]

\* AddOperation.apply
op_add(doc, parts, x) ==
    IF x = NoValue THEN Failed(doc)
    ELSE IF parts = <<>> THEN (IF IsDict(doc) THEN Done(x) ELSE Failed(doc))
    ELSE IF ParentIsDict(doc, parts) THEN Done(Put(doc, parts, x))
    ELSE Failed(doc)

\* RemoveOperation.apply
op_remove(doc, parts) ==
    IF HasMember(doc, parts) THEN Done(Del(doc, parts)) ELSE Failed(doc)

\* ReplaceOperation.apply
op_replace(doc, parts, x) ==
    IF x = NoValue THEN Failed(doc)
    ELSE IF parts = <<>> THEN Done(x)
    ELSE IF HasMember(doc, parts) THEN Done(Put(doc, parts, x))
    ELSE Failed(doc)

\* MoveOperation.apply: the value is removed first and then added, so a
\* failing add leaves the working document without the value
op_move(doc, from, parts) ==
    IF from.kind # "ptr" \/ ~HasMember(doc, from.parts) THEN Failed(doc)
    ELSE IF from.parts = parts THEN Done(doc)
    ELSE IF IsPrefix(from.parts, parts) THEN Failed(doc)
    ELSE op_add(Del(doc, from.parts), parts, Resolve(doc, from.parts).val)

\* CopyOperation.apply
op_copy(doc, from, parts) ==
    IF from.kind # "ptr" \/ ~HasMember(doc, from.parts) THEN Failed(doc)
    ELSE op_add(doc, parts, Resolve(doc, from.parts).val)

\* TestOperation.apply
op_test(doc, parts, x) ==
    LET r == Resolve(doc, parts)
    IN  IF ~r.found \/ x = NoValue \/ ~PyEq(r.val, x) THEN Failed(doc) ELSE Done(doc)

ApplyOp(doc, o) ==
    CASE o.op = "add"     -> op_add(doc, o.path.parts, o.value)
      [] o.op = "remove"  -> op_remove(doc, o.path.parts)
      [] o.op = "replace" -> op_replace(doc, o.path.parts, o.value)
      [] o.op = "move"    -> op_move(doc, o.from, o.path.parts)
      [] o.op = "copy"    -> op_copy(doc, o.from, o.path.parts)
      [] o.op = "test"    -> op_test(doc, o.path.parts, o.value)

\* JsonPatch(patch): every operation is built before any is applied; an
\* unknown verb, a missing path or a path that is no JSON pointer raises
Constructible(o) == o.op \in ValidOps /\ o.path.kind = "ptr"

\* for operation in self._ops: obj = operation.apply(obj)
\* at = index of the operation that raised (0: none, or raised before any ran)
RECURSIVE RunOps(_, _, _)
RunOps(doc, ops, i) ==
    IF i > Len(ops) THEN [ok |-> TRUE, doc |-> doc, at |-> 0]
    ELSE LET r == ApplyOp(doc, ops[i])
         IN  IF r.ok THEN RunOps(r.doc, ops, i + 1)
             ELSE [ok |-> FALSE, doc |-> r.doc, at |-> i]

\* JsonPatch(patch).apply on the working document
JsonPatchRun(doc, ops) ==
    IF \E i \in 1..Len(ops) : ~Constructible(ops[i])
    THEN [ok |-> FALSE, doc |-> doc, at |-> 0]
    ELSE RunOps(doc, ops, 1)

(***************************************************************************)
(* JsonPatch.from_diff (jsonpatch's DiffBuilder).  The builder keeps the   *)
(* operations in a list and indexes every add and remove by its value, so  *)
(* that a value removed in one place and added in another becomes a move.  *)
(* While the list is built a remove carries the value it removed.          *)
(***************************************************************************)
\* key of the index: (value, type(value)), compared with ==
TypedKeyEq(a, b) == a.t = b.t /\ PyEq(a, b)

\* take_index: the most recently stored operation of that kind and value
LastIndex(L, kind, item) ==
    LET hits == {i \in 1..Len(L) : L[i].op = kind /\ TypedKeyEq(L[i].value, item)}
    IN  IF hits = {} THEN 0 ELSE CHOOSE i \in hits : \A j \in hits : j <= i

Without(L, i) == SubSeq(L, 1, i - 1) \o SubSeq(L, i + 1, Len(L))

\* DiffBuilder._item_added
item_added(L, parts, item) ==
    LET i == LastIndex(L, "remove", item)
    IN  IF i = 0 THEN Append(L, OpAdd(parts, item))
        ELSE IF L[i].path.parts # parts
             THEN Append(Without(L, i), OpMove(L[i].path.parts, parts))
        ELSE Without(L, i)

\* DiffBuilder._item_removed
item_removed(L, parts, item) ==
    LET i == LastIndex(L, "add", item)
    IN  IF i = 0 THEN Append(L, [OpRemove(parts) EXCEPT !.value = item])
        ELSE IF L[i].path.parts # parts
             THEN Append(Without(L, i), OpMove(parts, L[i].path.parts))
        ELSE Without(L, i)

\* DiffBuilder._item_replaced
item_replaced(L, parts, item) == Append(L, OpReplace(parts, item))

\* the keys of S in the iteration order of a Python set
KeysInOrder(S, ord) ==
    SelectSeq(ord, LAMBDA k : k \in S) \o SetToSeq(S \ {ord[i] : i \in 1..Len(ord)})

\* DiffBuilder._compare_dicts and _compare_values; json.dumps(src) ==
\* json.dumps(dst) holds for scalars exactly when type and value agree
RECURSIVE compare_dicts(_, _, _, _, _), compare_values(_, _, _, _, _),
          RemovedLoop(_, _, _, _), AddedLoop(_, _, _, _), CommonLoop(_, _, _, _, _, _)
RemovedLoop(L, parts, src, ks) ==
    IF ks = <<>> THEN L
    ELSE RemovedLoop(item_removed(L, Append(parts, Head(ks)), src.v[Head(ks)]),
                     parts, src, Tail(ks))
AddedLoop(L, parts, dst, ks) ==
    IF ks = <<>> THEN L
    ELSE AddedLoop(item_added(L, Append(parts, Head(ks)), dst.v[Head(ks)]),
                   parts, dst, Tail(ks))
CommonLoop(L, parts, src, dst, ks, ord) ==
    IF ks = <<>> THEN L
    ELSE CommonLoop(compare_values(L, Append(parts, Head(ks)),
                                   src.v[Head(ks)], dst.v[Head(ks)], ord),
                    parts, src, dst, Tail(ks), ord)
compare_values(L, parts, src, dst, ord) ==
    IF IsDict(src) /\ IsDict(dst) THEN compare_dicts(L, parts, src, dst, ord)
    ELSE IF src = dst THEN L
    ELSE item_replaced(L, parts, dst)
compare_dicts(L, parts, src, dst, ord) ==
    LET src_keys == DOMAIN src.v
        dst_keys == DOMAIN dst.v
        L1 == RemovedLoop(L, parts, src, KeysInOrder(src_keys \ dst_keys, ord))
        L2 == AddedLoop(L1, parts, dst, KeysInOrder(dst_keys \ src_keys, ord))
    IN  CommonLoop(L2, parts, src, dst, KeysInOrder(src_keys \cap dst_keys, ord), ord)

\* a remove that stayed a remove goes out without the value it was indexed by
StripOp(o) == IF o.op = "remove" THEN [o EXCEPT !.value = NoValue] ELSE o

\* JsonPatch.from_diff(src, dst).patch
from_diff(src, dst, ord) ==
    LET L == compare_values(<<>>, <<>>, src, dst, ord)
    IN  [i \in 1..Len(L) |-> StripOp(L[i])]

(***************************************************************************)
(* services/patcher.py                                                     *)
(***************************************************************************)
Returned(h, x) == [h |-> h, raised |-> FALSE, val |-> x]
Raised(h)      == [h |-> h, raised |-> TRUE,  val |-> PyNone]

\* JsonPatch(ops).apply(obj, in_place=True): the operations run on the
\* caller's own object, which keeps whatever ran before one raised
JsonPatch_apply_in_place(h, obj, ops) ==
    LET r == JsonPatchRun(Deep(h, obj), ops)
        a == Alloc(h, r.doc)
        hh == IF IsDict(r.doc) THEN [a.h EXCEPT ![obj.v] = a.h[a.x.v]] ELSE h
    IN  IF r.ok THEN Returned(hh, IF IsDict(r.doc) THEN obj ELSE r.doc)
        ELSE Raised(hh)

\* JsonPatch(ops).apply(obj): in_place defaults to False, so the operations
\* run on copy.deepcopy(obj) and the result is that copy
JsonPatch_apply(h, obj, ops) ==
    LET r == JsonPatchRun(Deep(h, obj), ops)
        a == Alloc(h, r.doc)
    IN  IF r.ok THEN Returned(a.h, a.x) ELSE Raised(h)

\* apply_patch(base_scene, patch_ops); any exception becomes ValueError
apply_patch(h, base_scene, patch_ops) ==
    IF patch_ops = <<>>
    THEN LET c == deepcopy(h, base_scene) IN Returned(c.h, c.x)
    ELSE JsonPatch_apply(h, base_scene, patch_ops)

\* the diff taken in the wrong direction (arguments of from_diff swapped)
generate_patch_swapped(h, original, modified, ord) ==
    Returned(h, from_diff(Deep(h, modified), Deep(h, original), ord))

\* generate_patch(original, modified)
generate_patch(h, original, modified, ord) ==
    Returned(h, from_diff(Deep(h, original), Deep(h, modified), ord))

(***************************************************************************)
(* Inputs.  Documents are all mappings over DocKeys with scalar leaves     *)
(* from DocScalars and at most MaxNodes keys in the whole tree.            *)
(***************************************************************************)
MaxNodes == 2
MaxPatchLen == 2

DocKeys    == {"camera", "lens_mm"}
DocScalars == {PyInt(1), PyBool(TRUE), PyStr("x")}

RECURSIVE SumOver(_, _)
SumOver(S, f) ==
    IF S = {} THEN 0
    ELSE LET x == CHOOSE y \in S : TRUE IN f[x] + SumOver(S \ {x}, f)

RECURSIVE Nodes(_)
Nodes(val) ==
    IF IsDict(val)
    THEN SumOver(DOMAIN val.v, [k \in DOMAIN val.v |-> 1 + Nodes(val.v[k])])
    ELSE 0

RECURSIVE DictsUpTo(_)
DictsUpTo(n) ==
    IF n = 0 THEN {MkDict(<<>>)}
    ELSE LET sub == DocScalars \cup DictsUpTo(n - 1)
         IN  {d \in {MkDict(f) : f \in UNION {[ks -> sub] : ks \in SUBSET DocKeys}} :
                 Nodes(d) <= n}

Docs == DictsUpTo(MaxNodes)

\* Iteration orders of a set of keys
Dict1(k, x) == MkDict([j \in {k} |-> x])

SceneEmpty == EmptyDict
SceneFull ==
    MkDict([j \in {"camera", "lighting", "color", "constraints"} |->
        CASE j = "camera"      -> MkDict([l \in {"lens_mm", "tilt"} |->
                                      IF l = "lens_mm" THEN PyInt(50) ELSE PyInt(0)])
          [] j = "lighting"    -> MkDict([l \in {"key", "ambient"} |->
                                      IF l = "ambient" THEN PyFloat(30)
                                      ELSE MkDict([m \in {"intensity", "angle"} |->
                                               IF m = "intensity" THEN PyFloat(85) ELSE PyInt(45)])])
          [] j = "color"       -> MkDict([l \in {"temperature", "saturation"} |->
                                      IF l = "temperature" THEN PyInt(50) ELSE PyFloat(70)])
          [] j = "constraints" -> Dict1("lock_composition", PyBool(FALSE))])
\* sections that are not mappings
SceneFlat ==
    MkDict([j \in {"camera", "lighting"} |-> IF j = "camera" THEN PyStr("wide") ELSE PyNone])
\* a scene the zoom rule leaves as it is, and a lighting section without key
SceneZoomed ==
    MkDict([j \in {"camera", "lighting"} |->
        IF j = "camera" THEN Dict1("lens_mm", PyInt(100))
        ELSE Dict1("fill", Dict1("intensity", PyFloat(50)))])

\* camera and lighting.key sections that hold neither lens_mm nor intensity
SceneKeyed ==
    MkDict([j \in {"camera", "lighting"} |->
        IF j = "camera" THEN Dict1("tilt", PyInt(-15))
        ELSE Dict1("key", Dict1("angle", PyInt(45)))])

\* SceneFull zoomed in, its key light made the fill light, its colour dropped
SceneRelit ==
    MkDict([j \in {"camera", "lighting", "constraints"} |->
        CASE j = "camera"      -> MkDict([l \in {"lens_mm", "tilt"} |->
                                      IF l = "lens_mm" THEN PyInt(100) ELSE PyInt(0)])
          [] j = "lighting"    -> MkDict([l \in {"fill", "ambient"} |->
                                      IF l = "ambient" THEN PyFloat(30)
                                      ELSE MkDict([m \in {"intensity", "angle"} |->
                                               IF m = "intensity" THEN PyFloat(85) ELSE PyInt(45)])])
          [] j = "constraints" -> Dict1("lock_composition", PyBool(FALSE))])

Scenes == {SceneEmpty, SceneFull, SceneFlat, SceneZoomed}

\* the documents the patch and drift operations are run on
SceneGraphs == Docs \cup Scenes \cup {SceneRelit}

KeyList ==
    <<"camera", "lens_mm", "tilt", "depth_of_field", "lighting", "key", "intensity", "angle",
      "fill", "ambient", "color", "temperature", "saturation", "contrast", "constraints",
      "lock_composition", "lock_subject_identity">>
Reverse(s) == [i \in 1..Len(s) |-> s[Len(s) + 1 - i]]
Orders == {KeyList, Reverse(KeyList)}

\* USE_LLM_TRANSLATOR off: the external service is never asked
NoLLM == [use_llm |-> FALSE, api_key |-> FALSE, outcome |-> "object",
          patch |-> NoValue, updated_scene |-> NoValue, confidence |-> NoValue]
NoRet == [raised |-> FALSE, val |-> PyNone]
\* a file with its text; os.path.exists(timeline_file) is false for NoFile
File(text) == [exists |-> TRUE, text |-> text]
NoFile == [exists |-> FALSE, text |-> <<>>]

\* generate_with_fibo_or_demo has not been called
IdleFibo ==
    [pc |-> "idle", poll_count |-> 0, downloaded |-> FALSE, timed_out |-> FALSE, ret |-> NoRet]

\* no timeline file yet, nobody writing or reading it, no request served
IdleStore ==
    /\ file = NoFile
    /\ writers = <<>>
    /\ appended = <<>>
    /\ reads = <<>>
    /\ outbox = <<>>
    /\ served = NoValue
    /\ fibo = IdleFibo

\* the caller holds two documents; nothing has been called yet
Caller(a, b, p, ins, l, o) ==
    LET r1 == Alloc(<<>>, a)
        r2 == Alloc(r1.h, b)
    IN  /\ heap = r2.h
        /\ scene = r1.x
        /\ other = r2.x
        /\ patch = p
        /\ instruction = ins
        /\ llm = l
        /\ order = o
        /\ calls = <<>>
        /\ ret = NoRet
        /\ scene0 = a
        /\ ret0 = PyNone
        /\ touched = "none"

Start(a, b, p, ins, l, o) ==
    /\ Caller(a, b, p, ins, l, o)
    /\ bounds = PyNone
    /\ IdleStore

(***************************************************************************)
(* The caller's operations on the patch engine.                            *)
(***************************************************************************)
GeneratePatch ==
    /\ calls = <<>>
    /\ LET r == generate_patch(heap, scene, other, order)
       IN  /\ heap' = r.h
           /\ patch' = r.val
           /\ ret' = [raised |-> r.raised, val |-> r.val]
    /\ calls' = Append(calls, "generate_patch")
    /\ scene0' = Deep(heap, scene)
    /\ UNCHANGED <<scene, other, instruction, llm, order, ret0, touched>>
    /\ UNCHANGED store_vars

ApplyPatch ==
    /\ calls \in {<<>>, <<"generate_patch">>}
    /\ LET r == apply_patch(heap, scene, patch)
       IN  /\ heap' = r.h
           /\ ret' = [raised |-> r.raised, val |-> r.val]
           /\ ret0' = Deep(r.h, r.val)
    /\ calls' = Append(calls, "apply_patch")
    /\ scene0' = Deep(heap, scene)
    /\ UNCHANGED <<scene, other, patch, instruction, llm, order, touched>>
    /\ UNCHANGED store_vars

InitDiff ==
    \E a \in SceneGraphs, b \in SceneGraphs, o \in Orders : Start(a, b, <<>>, <<>>, NoLLM, o)

NextDiff == GeneratePatch \/ ApplyPatch

SpecDiff == InitDiff /\ [][NextDiff]_vars

\* Patches a caller may hand to apply_patch: every sequence of at most
\* MaxPatchLen of these operations
CandidateOps == {
    OpAdd(<<"camera">>, PyInt(1)),
    OpAdd(<<"camera", "lens_mm">>, PyBool(TRUE)),
    OpRemove(<<"lens_mm">>),
    OpReplace(<<"camera">>, EmptyDict),
    OpTest(<<"camera">>, PyInt(1)),
    OpMove(<<"camera">>, <<"lens_mm", "camera">>),
    OpCopy(<<"camera">>, <<"lens_mm">>),
    [OpAdd(<<"camera">>, PyInt(1)) EXCEPT !.path = BadPtr(<<"camera">>)] }

CandidatePatches == UNION {[1..n -> CandidateOps] : n \in 0..MaxPatchLen}

\* the dict objects reachable from a heap value
RECURSIVE Reach(_, _)
Reach(h, x) ==
    IF x.t # "ref" THEN {}
    ELSE {x.v} \cup UNION {Reach(h, h[x.v][k]) : k \in DOMAIN h[x.v]}

Marker == PyStr("mutated")

\* the caller sets a key of some dict, at any depth, of the returned document
MutateReturned ==
    /\ calls # <<>>
    /\ ~ret.raised
    /\ touched = "none"
    /\ \E a \in Reach(heap, ret.val), k \in DocKeys :
          heap' = [heap EXCEPT ![a] = SetKey(@, k, Marker)]
    /\ touched' = "ret"
    /\ UNCHANGED <<scene, other, patch, instruction, llm, order, calls, ret, scene0, ret0>>
    /\ UNCHANGED store_vars

\* the caller sets a key of some dict, at any depth, of the scene it passed in
MutateInput ==
    /\ calls # <<>>
    /\ ~ret.raised
    /\ touched = "none"
    /\ \E a \in Reach(heap, scene), k \in DocKeys :
          heap' = [heap EXCEPT ![a] = SetKey(@, k, Marker)]
    /\ touched' = "scene"
    /\ UNCHANGED <<scene, other, patch, instruction, llm, order, calls, ret, scene0, ret0>>
    /\ UNCHANGED store_vars

InitApply ==
    \E a \in SceneGraphs, p \in CandidatePatches :
        Start(a, EmptyDict, p, <<>>, NoLLM, KeyList)

NextApply == ApplyPatch \/ MutateReturned \/ MutateInput

SpecApply == InitApply /\ [][NextApply]_vars

(***************************************************************************)
(* routers/translate.py: the rule-based translator.  Text is a sequence of *)
(* characters, so that "word in instruction_lower" is a substring test.    *)
(***************************************************************************)
ZoomInWords ==
    {<<"z", "o", "o", "m">>,
     <<"c", "l", "o", "s", "e", "r">>,
     <<"t", "i", "g", "h", "t", "e", "r">>}
ZoomOutWords ==
    {<<"w", "i", "d", "e", "r">>,
     <<"p", "u", "l", "l", " ", "b", "a", "c", "k">>,
     <<"z", "o", "o", "m", " ", "o", "u", "t">>}
TiltWords ==
    {<<"a", "n", "g", "l", "e">>,
     <<"t", "i", "l", "t">>,
     <<"d", "o", "w", "n">>}
BrightenWords ==
    {<<"b", "r", "i", "g", "h", "t", "e", "n">>,
     <<"i", "n", "c", "r", "e", "a", "s", "e", " ", "l", "i", "g", "h", "t">>,
     <<"m", "o", "r", "e", " ", "l", "i", "g", "h", "t">>}
DarkenWords ==
    {<<"d", "a", "r", "k", "e", "n">>,
     <<"d", "e", "c", "r", "e", "a", "s", "e", " ", "l", "i", "g", "h", "t">>,
     <<"l", "e", "s", "s", " ", "l", "i", "g", "h", "t">>}
WarmWords ==
    {<<"w", "a", "r", "m">>,
     <<"w", "a", "r", "m", "e", "r">>}
CoolWords ==
    {<<"c", "o", "o", "l">>,
     <<"c", "o", "o", "l", "e", "r">>,
     <<"c", "o", "l", "d">>}
SaturateWords ==
    {<<"s", "a", "t", "u", "r", "a", "t", "e">>,
     <<"v", "i", "v", "i", "d">>,
     <<"v", "i", "b", "r", "a", "n", "t">>,
     <<"s", "a", "t", "u", "r", "a", "t", "e", "d">>}
DesaturateWords ==
    {<<"d", "e", "s", "a", "t", "u", "r", "a", "t", "e">>,
     <<"m", "u", "t", "e", "d">>,
     <<"l", "e", "s", "s", " ", "c", "o", "l", "o", "r">>}
ContrastWords ==
    {<<"c", "o", "n", "t", "r", "a", "s", "t">>,
     <<"p", "u", "n", "c", "h", "y">>,
     <<"c", "r", "i", "s", "p">>}
ShallowWords ==
    {<<"b", "l", "u", "r", " ", "b", "a", "c", "k", "g", "r", "o", "u", "n", "d">>,
     <<"s", "h", "a", "l", "l", "o", "w", " ", "f", "o", "c", "u", "s">>,
     <<"s", "e", "p", "a", "r", "a", "t", "i", "o", "n">>}
DeepWords ==
    {<<"s", "h", "a", "r", "p">>,
     <<"d", "e", "e", "p", " ", "f", "o", "c", "u", "s">>}
LockWord == <<"l", "o", "c", "k">>
CompositionWord == <<"c", "o", "m", "p", "o", "s", "i", "t", "i", "o", "n">>
SubjectWord == <<"s", "u", "b", "j", "e", "c", "t">>

\* str.lower(), on the upper-case letters the instructions use
UpperCase == ("Z" :> "z") @@ ("O" :> "o") @@ ("B" :> "b")
lower(text) ==
    [i \in 1..Len(text) |-> IF text[i] \in DOMAIN UpperCase THEN UpperCase[text[i]] ELSE text[i]]

\* word in text
Contains(text, word) ==
    \E i \in 0..(Len(text) - Len(word)) : SubSeq(text, i + 1, i + Len(word)) = word

\* any(word in text for word in words)
AnyWord(text, words) == \E w \in words : Contains(text, w)

\* updates[section] = updates.get(section, {}); updates[section][leaf] = x
\* keys: the sections in insertion order; d: section -> its dict
NoUpdates == [keys |-> <<>>, d |-> <<>>]
SetUpdate(U, section, leaf, x) ==
    LET old == IF section \in DOMAIN U.d THEN U.d[section] ELSE <<>>
    IN  [keys |-> IF section \in DOMAIN U.d THEN U.keys ELSE Append(U.keys, section),
         d    |-> SetKey(U.d, section, SetKey(old, leaf, x))]

\* updates["lighting"]["key"] = updates["lighting"].get("key", {});
\* updates["lighting"]["key"]["intensity"] = x
SetKeyIntensity(U, x) ==
    LET lighting == IF "lighting" \in DOMAIN U.d THEN U.d["lighting"] ELSE <<>>
        key == IF "key" \in DOMAIN lighting THEN lighting["key"].v ELSE <<>>
    IN  SetUpdate(U, "lighting", "key", MkDict(SetKey(key, "intensity", x)))

\* the if/elif chains of translate_with_rules, in source order
CameraRule_zoom_out_first(U, t) ==
    IF AnyWord(t, ZoomOutWords) THEN SetUpdate(U, "camera", "lens_mm", PyInt(35))
    ELSE IF AnyWord(t, ZoomInWords) THEN SetUpdate(U, "camera", "lens_mm", PyInt(100))
    ELSE IF AnyWord(t, TiltWords) THEN SetUpdate(U, "camera", "tilt", PyInt(-15))
    ELSE U
CameraRule(U, t) ==
    IF AnyWord(t, ZoomInWords) THEN SetUpdate(U, "camera", "lens_mm", PyInt(100))
    ELSE IF AnyWord(t, ZoomOutWords) THEN SetUpdate(U, "camera", "lens_mm", PyInt(35))
    ELSE IF AnyWord(t, TiltWords) THEN SetUpdate(U, "camera", "tilt", PyInt(-15))
    ELSE U
LightingRule_elif(U, t) ==
    IF U.keys # <<>> THEN U
    ELSE IF AnyWord(t, BrightenWords) THEN SetKeyIntensity(U, PyFloat(95))
    ELSE IF AnyWord(t, DarkenWords) THEN SetKeyIntensity(U, PyFloat(65))
    ELSE U
LightingRule(U, t) ==
    IF AnyWord(t, BrightenWords) THEN SetKeyIntensity(U, PyFloat(95))
    ELSE IF AnyWord(t, DarkenWords) THEN SetKeyIntensity(U, PyFloat(65))
    ELSE U
TemperatureRule(U, t) ==
    IF AnyWord(t, WarmWords) THEN SetUpdate(U, "color", "temperature", PyInt(75))
    ELSE IF AnyWord(t, CoolWords) THEN SetUpdate(U, "color", "temperature", PyInt(30))
    ELSE U
SaturationRule(U, t) ==
    IF AnyWord(t, SaturateWords) THEN SetUpdate(U, "color", "saturation", PyFloat(95))
    ELSE IF AnyWord(t, DesaturateWords) THEN SetUpdate(U, "color", "saturation", PyFloat(40))
    ELSE U
ContrastRule(U, t) ==
    IF AnyWord(t, ContrastWords) THEN SetUpdate(U, "color", "contrast", PyFloat(85)) ELSE U
DepthOfFieldRule(U, t) ==
    IF AnyWord(t, ShallowWords) THEN SetUpdate(U, "camera", "depth_of_field", PyFloat(90))
    ELSE IF AnyWord(t, DeepWords) THEN SetUpdate(U, "camera", "depth_of_field", PyFloat(20))
    ELSE U
LockCompositionRule(U, t) ==
    IF Contains(t, LockWord) /\ Contains(t, CompositionWord)
    THEN SetUpdate(U, "constraints", "lock_composition", PyBool(TRUE)) ELSE U
LockSubjectRule(U, t) ==
    IF Contains(t, LockWord) /\ Contains(t, SubjectWord)
    THEN SetUpdate(U, "constraints", "lock_subject_identity", PyBool(TRUE)) ELSE U

CollectUpdates(t) ==
    LockSubjectRule(LockCompositionRule(DepthOfFieldRule(ContrastRule(SaturationRule(
        TemperatureRule(LightingRule(CameraRule(NoUpdates, t), t), t), t), t), t), t), t)

\* dict.update(other): the slots of other are stored into the object
Update(f, g) == [k \in (DOMAIN f) \cup (DOMAIN g) |-> IF k \in DOMAIN g THEN g[k] ELSE f[k]]

\* for key, value in updates.items(): merge into updated_scene (object u).
\* updated_scene[key] may be the very object current_scene[key] is.
RECURSIVE MergeUpdates(_, _, _, _)
MergeUpdates(h, u, U, ks) ==
    IF ks = <<>> THEN h
    ELSE LET key == Head(ks)
             a == Alloc(h, MkDict(U.d[key]))      \* the object updates[key]
             h2 == IF key \in DOMAIN h[u.v] /\ h[u.v][key].t = "ref"
                   THEN [a.h EXCEPT ![h[u.v][key].v] = Update(@, a.h[a.x.v])]
                   ELSE [a.h EXCEPT ![u.v] = SetKey(@, key, a.x)]
         IN  MergeUpdates(h2, u, U, Tail(ks))

\* f"Modified: {', '.join(changed_keys)}" if changed_keys else "No changes"
DiffSummary_always(changed_keys) == <<"Modified: ">> \o changed_keys
DiffSummary(changed_keys) ==
    IF changed_keys # <<>> THEN <<"Modified: ">> \o changed_keys ELSE <<"No changes">>

\* translate_with_rules(instruction, current_scene)
translate_with_rules(h, ins, current_scene, ord) ==
    LET instruction_lower == lower(ins)
        c == dict_copy(h, current_scene)          \* updated_scene = current_scene.copy()
        updated_scene == c.x
        updates == CollectUpdates(instruction_lower)
        h2 == MergeUpdates(c.h, updated_scene, updates, updates.keys)
        p == from_diff(Deep(h2, current_scene), Deep(h2, updated_scene), ord)
        diff_summary == DiffSummary(updates.keys)
    IN  Returned(h2, [patch |-> p,
                      updated_scene |-> updated_scene,
                      diff_summary |-> diff_summary,
                      confidence |-> IF updates.keys # <<>> THEN PyFloat(90) ELSE PyFloat(50),
                      explanation |-> <<"Rule-based translation: ">> \o diff_summary])

(***************************************************************************)
(* Inputs of the translator: instructions are up to MaxPhrases phrases     *)
(* joined by blanks; scenes carry the sections the rules touch.            *)
(***************************************************************************)
MaxPhrases == 2

Phrases == {
    <<"z", "o", "o", "m", " ", "i", "n">>,
    <<"Z", "o", "o", "m", " ", "O", "u", "t">>,
    <<"w", "i", "d", "e", "r">>,
    <<"t", "i", "l", "t", " ", "d", "o", "w", "n">>,
    <<"b", "r", "i", "g", "h", "t", "e", "n">>,
    <<"d", "a", "r", "k", "e", "n">>,
    <<"w", "a", "r", "m", "e", "r">>,
    <<"c", "o", "o", "l">>,
    <<"d", "e", "s", "a", "t", "u", "r", "a", "t", "e">>,
    <<"m", "u", "t", "e", "d">>,
    <<"p", "u", "n", "c", "h", "y">>,
    <<"b", "l", "u", "r", " ", "b", "a", "c", "k", "g", "r", "o", "u", "n", "d">>,
    <<"s", "h", "a", "r", "p">>,
    <<"l", "o", "c", "k", " ", "c", "o", "m", "p", "o", "s", "i", "t", "i", "o", "n">>,
    <<"l", "o", "c", "k", " ", "s", "u", "b", "j", "e", "c", "t">>,
    <<"s", "a", "y", " ", "h", "e", "l", "l", "o">>,
    <<"z", "o", "o", "m", " ", "i", "n", " ", "a", "n", "d", " ", "b", "r", "i", "g", "h", "t", "e", "n", " ", "t", "h", "e", " ", "k", "e", "y", " ", "l", "i", "g", "h", "t">> }

RECURSIVE Join(_)
Join(ps) ==
    IF ps = <<>> THEN <<>>
    ELSE IF Len(ps) = 1 THEN ps[1]
    ELSE ps[1] \o <<" ">> \o Join(Tail(ps))

Instructions == {Join(ps) : ps \in UNION {[1..n -> Phrases] : n \in 0..MaxPhrases}}

TranslateWithRules ==
    /\ calls = <<>>
    /\ LET r == translate_with_rules(heap, instruction, scene, order)
       IN  /\ heap' = r.h
           /\ ret' = [raised |-> r.raised, val |-> r.val]
           /\ ret0' = Deep(r.h, r.val.updated_scene)
    /\ calls' = Append(calls, "translate_with_rules")
    /\ scene0' = Deep(heap, scene)
    /\ UNCHANGED <<scene, other, patch, instruction, llm, order, touched>>
    /\ UNCHANGED store_vars

InitTranslate ==
    \E a \in Scenes, ins \in Instructions, o \in Orders :
        Start(a, EmptyDict, <<>>, ins, NoLLM, o)

NextTranslate == TranslateWithRules

SpecTranslate == InitTranslate /\ [][NextTranslate]_vars

\* every scene, those with camera and lighting.key sections among them
InitSections ==
    \E a \in Scenes \cup {SceneKeyed}, ins \in Instructions :
        Start(a, EmptyDict, <<>>, ins, NoLLM, KeyList)

SpecSections == InitSections /\ [][NextTranslate]_vars

(***************************************************************************)
(* services/cerebras_translator.py.  llm holds the two settings and what   *)
(* the external service does with the request:                             *)
(*   outcome  "connect_error", "timeout"   httpx raises                    *)
(*            "http_500"                   status code other than 200      *)
(*            "body_not_json"              response.json() raises          *)
(*            "empty_choices"              "choices" is an empty list      *)
(*            "no_content"                 no message content: ""          *)
(*            "content_not_json"           json.loads(content) raises      *)
(*            "content_not_object"         the content is JSON, not a dict *)
(*            "object"                     the content is a JSON object    *)
(*   patch, updated_scene, confidence      members of that object, or      *)
(*                                         NoValue when it lacks them      *)
(***************************************************************************)
PyList(ops) == [t |-> "list", v |-> ops]

\* float(x)
py_float(x) ==
    IF IsNumber(x) THEN [ok |-> TRUE, val |-> PyFloat(x.v)]
    ELSE [ok |-> FALSE, val |-> PyNone]      \* a non-numeric str, or None

\* translate_with_cerebras(instruction, current_scene)
translate_with_cerebras(h, ins, current_scene, l) ==
    IF ~l.api_key THEN Raised(h)
    ELSE IF l.outcome # "object" THEN Raised(h)
    ELSE LET p == IF l.patch.t = "list" THEN l.patch.v ELSE <<>>
             u == IF IsDict(l.updated_scene) THEN Alloc(h, l.updated_scene)
                  ELSE dict_copy(h, current_scene)
             c == py_float(IF l.confidence = NoValue THEN PyFloat(90) ELSE l.confidence)
         IN  IF ~c.ok THEN Raised(h)
             ELSE Returned(u.h, [patch |-> p, updated_scene |-> u.x, confidence |-> c.val])

\* validate_patch_for_scene(patch, scene): does the patch apply to scene.copy()
validate_patch_for_scene(h, p, scene_) ==
    LET c == dict_copy(h, scene_)
    IN  ~JsonPatch_apply(c.h, c.x, p).raised

\* translate_with_fallback(instruction, current_scene)
translate_with_fallback(h, ins, current_scene, l, ord) ==
    LET r == translate_with_cerebras(h, ins, current_scene, l)
    IN  IF /\ l.use_llm /\ l.api_key
           /\ ~r.raised
           /\ validate_patch_for_scene(r.h, r.val.patch, current_scene)
        THEN r
        ELSE translate_with_rules(h, ins, current_scene, ord)

TranslateWithFallback ==
    /\ calls = <<>>
    /\ LET r == translate_with_fallback(heap, instruction, scene, llm, order)
       IN  /\ heap' = r.h
           /\ ret' = [raised |-> r.raised, val |-> r.val]
           /\ ret0' = Deep(r.h, r.val.updated_scene)
    /\ calls' = Append(calls, "translate_with_fallback")
    /\ scene0' = Deep(heap, scene)
    /\ UNCHANGED <<scene, other, patch, instruction, llm, order, touched>>
    /\ UNCHANGED store_vars

\* what the external service may answer
FailedOutcomes == {"connect_error", "timeout", "http_500", "body_not_json", "empty_choices",
                   "no_content", "content_not_json", "content_not_object"}
LLMPatches == {NoValue, PyStr("none"), PyList(<<>>),
               PyList(<<OpAdd(<<"camera">>, PyInt(1))>>),
               PyList(<<OpRemove(<<"camera">>)>>),
               PyList(<<[OpRemove(<<"camera">>) EXCEPT !.op = "delete"]>>)}
LLMScenes == {NoValue, PyNone, EmptyDict, Dict1("camera", PyInt(1))}
LLMConfidences == {NoValue, PyFloat(95), PyStr("high")}
LLMs ==
    {NoLLM, [NoLLM EXCEPT !.use_llm = TRUE], [NoLLM EXCEPT !.api_key = TRUE]}
    \cup {[NoLLM EXCEPT !.use_llm = TRUE, !.api_key = TRUE, !.outcome = o] : o \in FailedOutcomes}
    \cup [use_llm : {TRUE}, api_key : {TRUE}, outcome : {"object"},
          patch : LLMPatches, updated_scene : LLMScenes, confidence : LLMConfidences]

FallbackInstructions ==
    {<<"s", "a", "y", " ", "h", "e", "l", "l", "o">>, <<"z", "o", "o", "m", " ", "i", "n">>,
     <<"b", "r", "i", "g", "h", "t", "e", "n">>}

InitFallback ==
    \E a \in Scenes, ins \in FallbackInstructions, l \in LLMs :
        Start(a, EmptyDict, <<>>, ins, l, KeyList)

NextFallback == TranslateWithFallback

SpecFallback == InitFallback /\ [][NextFallback]_vars

(***************************************************************************)
(* services/drift.py.  A dotted key path "camera.lens_mm" is kept as the   *)
(* sequence of its keys.  A score is the fraction num/den.                 *)
(***************************************************************************)
PySet(S) == [t |-> "set", v |-> S]
ReturnedV(x) == [raised |-> FALSE, val |-> x]
RaisedV      == [raised |-> TRUE,  val |-> PyNone]

\* obj.keys() exists on a dict; on a set it raises AttributeError
HasKeys(x) == IsDict(x)
\* d.get(key)
Get(d, key) == IF key \in DOMAIN d.v THEN d.v[key] ELSE PyNone

\* get_modified_keys(original, modified): its first statement, modified = set(),
\* rebinds the parameter, so every later use of modified is that set
RECURSIVE get_modified_keys(_, _)
get_modified_keys(original, modified) ==
    LET modified_ == PySet({})
    IN  IF ~HasKeys(original) \/ ~HasKeys(modified_) THEN RaisedV
        ELSE LET all_keys == (DOMAIN original.v) \cup (DOMAIN modified_.v)
                 differ == {key \in all_keys : ~PyEq(Get(original, key), Get(modified_, key))}
                 nested == {key \in differ : IsDict(Get(original, key)) /\ IsDict(Get(modified_, key))}
                 sub == [key \in nested |->
                            get_modified_keys(Get(original, key), Get(modified_, key))]
             IN  IF \E key \in nested : sub[key].raised THEN RaisedV
                 ELSE ReturnedV({<<key>> : key \in differ \ nested}
                          \cup UNION {{<<key>> \o sub_key : sub_key \in sub[key].val} :
                                         key \in nested})

\* get_all_keys(obj, prefix)
RECURSIVE get_all_keys(_, _)
get_all_keys(obj, prefix) ==
    UNION {{Append(prefix, key)}
             \cup (IF IsDict(obj.v[key]) THEN get_all_keys(obj.v[key], Append(prefix, key))
                   ELSE {}) : key \in DOMAIN obj.v}

Score(n, d) == [num |-> n, den |-> d]

\* calculate_drift_score(original, modified)
calculate_drift_score(original, modified) ==
    IF PyEq(original, modified) THEN ReturnedV(Score(0, 1))
    ELSE LET modified_keys == get_modified_keys(original, modified)
             all_keys == get_all_keys(original, <<>>) \cup get_all_keys(modified, <<>>)
         IN  IF modified_keys.raised THEN RaisedV
             ELSE IF modified_keys.val = {} THEN ReturnedV(Score(0, 1))
             ELSE IF all_keys = {} THEN ReturnedV(Score(0, 1))
             ELSE IF Cardinality(modified_keys.val) >= Cardinality(all_keys)
                  THEN ReturnedV(Score(1, 1))
             ELSE ReturnedV(Score(Cardinality(modified_keys.val), Cardinality(all_keys)))

CalculateDriftScore ==
    /\ calls = <<>>
    /\ ret' = calculate_drift_score(Deep(heap, scene), Deep(heap, other))
    /\ calls' = Append(calls, "calculate_drift_score")
    /\ scene0' = Deep(heap, scene)
    /\ UNCHANGED <<heap, scene, other, patch, instruction, llm, order, ret0, touched>>
    /\ UNCHANGED store_vars

GetModifiedKeys ==
    /\ calls = <<>>
    /\ ret' = get_modified_keys(Deep(heap, scene), Deep(heap, other))
    /\ calls' = Append(calls, "get_modified_keys")
    /\ scene0' = Deep(heap, scene)
    /\ UNCHANGED <<heap, scene, other, patch, instruction, llm, order, ret0, touched>>
    /\ UNCHANGED store_vars

InitDrift ==
    \E a \in SceneGraphs, b \in SceneGraphs : Start(a, b, <<>>, <<>>, NoLLM, KeyList)

NextDrift == CalculateDriftScore \/ GetModifiedKeys

SpecDrift == InitDrift /\ [][NextDrift]_vars

(***************************************************************************)
(* services/drift.py, continued.  A slash path "camera/lens_mm" is kept as *)
(* the sequence of its keys, a message as the record of what it shows.     *)
(***************************************************************************)
\* d.get(key, default)
GetOr(d, key, default) == IF key \in DOMAIN d.v THEN d.v[key] ELSE default

\* the truth value Python's "if x:" gives a value
Truthy(x) ==
    CASE IsNumber(x)    -> x.v # 0
      [] x.t = "str"    -> x.v # ""
      [] IsDict(x)      -> DOMAIN x.v # {}
      [] OTHER          -> FALSE

\* get_numeric_differences(original, modified): {path: (original, new)}
RECURSIVE compare_recursively(_, _, _)
compare_recursively(orig, mod, path) ==
    IF IsDict(orig) /\ IsDict(mod)
    THEN UNION {LET new_path == Append(path, key)
                    orig_val == Get(orig, key)
                    mod_val  == Get(mod, key)
                IN  IF IsNumber(orig_val) /\ IsNumber(mod_val)
                    THEN IF orig_val.v # mod_val.v
                         THEN {[path |-> new_path, orig |-> orig_val, new |-> mod_val]}
                         ELSE {}
                    ELSE IF IsDict(orig_val) /\ IsDict(mod_val)
                    THEN compare_recursively(orig_val, mod_val, new_path)
                    ELSE {} : key \in (DOMAIN orig.v) \cup (DOMAIN mod.v)}
    ELSE {}

get_numeric_differences(original, modified) == compare_recursively(original, modified, <<>>)

SubjectMessage     == "Subject identity was locked but was modified"
CompositionMessage == "Composition was locked but camera settings changed"
PaletteMessage     == "Palette was locked but was modified"

\* the lock the subject check reads
SubjectLockKey == "lock_subject"

\* a composition lock read under a name nobody writes
CompositionLockKey_other == "lock_camera"

\* the lock the composition check reads
CompositionLockKey == "lock_composition"

\* check_constraint_violations(original, modified)
check_constraint_violations(original, modified) ==
    LET constraints == GetOr(original, "constraints", EmptyDict)
    IN  IF ~IsDict(constraints) THEN RaisedV          \* .get on a value that is no dict
        ELSE
        LET subject == IF /\ Truthy(GetOr(constraints, SubjectLockKey, PyBool(FALSE)))
                          /\ ~PyEq(Get(original, "subject"), Get(modified, "subject"))
                       THEN <<SubjectMessage>> ELSE <<>>
            orig_camera == GetOr(original, "camera", EmptyDict)
            mod_camera  == GetOr(modified, "camera", EmptyDict)
            composition == IF /\ Truthy(GetOr(constraints, CompositionLockKey, PyBool(FALSE)))
                              /\ ~PyEq(orig_camera, mod_camera)
                           THEN <<CompositionMessage>> ELSE <<>>
            locked      == Truthy(GetOr(constraints, "lock_palette", PyBool(FALSE)))
            orig_color  == GetOr(original, "color", EmptyDict)
            mod_color   == GetOr(modified, "color", EmptyDict)
        IN  IF locked /\ (~IsDict(orig_color) \/ ~IsDict(mod_color)) THEN RaisedV
            ELSE LET palette == IF locked /\ ~PyEq(Get(orig_color, "palette"),
                                                   Get(mod_color, "palette"))
                                THEN <<PaletteMessage>> ELSE <<>>
                 IN  ReturnedV(subject \o composition \o palette)

\* f"{key} value {new} violates bounds [{min_val}, {max_val}]"
BoundMessage(d, b) == [key |-> d.path, new |-> d.new, min_val |-> b[1], max_val |-> b[2]]

\* calculate_bounded_drift(original, modified, bounds); bounds_ is None or a
\* dict {path: (min, max)}.  The list of violations is kept as the set of its
\* messages: its order is the iteration order of sets of keys.
calculate_bounded_drift(original, modified, bounds_) ==
    LET drift_score == calculate_drift_score(original, modified)
    IN  IF drift_score.raised THEN RaisedV
        ELSE LET numeric_diffs == IF Truthy(bounds_)
                                  THEN get_numeric_differences(original, modified) ELSE {}
                 outside == {d \in numeric_diffs :
                                /\ d.path \in DOMAIN bounds_.v
                                /\ \/ d.new.v < bounds_.v[d.path][1]
                                   \/ d.new.v > bounds_.v[d.path][2]}
                 violations == {BoundMessage(d, bounds_.v[d.path]) : d \in outside}
             IN  ReturnedV([drift_score |-> drift_score.val,
                            bound_violations |-> violations,
                            is_valid |-> Cardinality(violations) = 0])

CheckConstraintViolations ==
    /\ calls = <<>>
    /\ ret' = check_constraint_violations(Deep(heap, scene), Deep(heap, other))
    /\ calls' = Append(calls, "check_constraint_violations")
    /\ scene0' = Deep(heap, scene)
    /\ UNCHANGED <<heap, scene, other, patch, instruction, llm, order, ret0, touched>>
    /\ UNCHANGED store_vars

CalculateBoundedDrift ==
    /\ calls = <<>>
    /\ ret' = calculate_bounded_drift(Deep(heap, scene), Deep(heap, other), bounds)
    /\ calls' = Append(calls, "calculate_bounded_drift")
    /\ scene0' = Deep(heap, scene)
    /\ UNCHANGED <<heap, scene, other, patch, instruction, llm, order, ret0, touched>>
    /\ UNCHANGED store_vars

\* scenes for the lock checks: every section absent or a mapping
Section(doc, k, x) == IF x = NoValue THEN doc ELSE MkDict(SetKey(doc.v, k, x))

LockConstraints ==
    {NoValue, EmptyDict,
     Dict1("lock_composition", PyBool(TRUE)),
     Dict1("lock_composition", PyBool(FALSE)),
     Dict1("lock_subject", PyBool(TRUE)),
     Dict1("lock_palette", PyBool(TRUE)),
     \* what the analyze template writes
     MkDict([k \in {"lock_subject_identity", "lock_composition", "lock_palette"} |->
                PyBool(k = "lock_subject_identity")]),
     \* what the translator's lock rules write
     MkDict([k \in {"lock_subject_identity", "lock_composition"} |-> PyBool(TRUE)])}
LockCameras ==
    {NoValue, EmptyDict, Dict1("lens_mm", PyInt(50)), Dict1("lens_mm", PyInt(100)),
     MkDict([k \in {"lens_mm", "tilt"} |-> IF k = "lens_mm" THEN PyInt(50) ELSE PyInt(0)])}
LockSubjects ==
    {NoValue, Dict1("type", PyStr("cat")), Dict1("type", PyStr("dog"))}
LockColors ==
    {NoValue, Dict1("palette", PyStr("warm")), Dict1("palette", PyStr("cool"))}
LockScenes ==
    {Section(Section(Section(Section(EmptyDict, "constraints", c), "camera", cam),
                     "subject", sub), "color", col) :
        c \in LockConstraints, cam \in LockCameras, sub \in LockSubjects, col \in LockColors}
LockEdits ==
    {Section(Section(Section(EmptyDict, "camera", cam), "subject", sub), "color", col) :
        cam \in LockCameras, sub \in LockSubjects, col \in LockColors}

InitLocks ==
    \E a \in LockScenes, b \in LockEdits : Start(a, b, <<>>, <<>>, NoLLM, KeyList)

NextLocks == CheckConstraintViolations

SpecLocks == InitLocks /\ [][NextLocks]_vars

\* scenes and bounds for the bounded drift
LensPath == <<"camera", "lens_mm">>
TiltPath == <<"camera", "tilt">>
BoundedCameras ==
    {MkDict([k \in {"lens_mm", "tilt"} |-> IF k = "lens_mm" THEN PyInt(l) ELSE PyInt(t)]) :
        l \in {10, 50, 400}, t \in {0, 45}}
BoundedScenes ==
    {SceneEmpty, SceneFull, SceneFlat} \cup {Dict1("camera", cam) : cam \in BoundedCameras}
BoundsArgs ==
    {PyNone, EmptyDict,
     MkDict([p \in {LensPath} |-> <<1400, 30000>>]),
     MkDict([p \in {LensPath, TiltPath} |-> IF p = LensPath THEN <<1400, 30000>>
                                             ELSE <<-1000, 1000>>])}

InitBounded ==
    \E a \in BoundedScenes, b \in BoundedScenes, bs \in BoundsArgs :
        /\ Caller(a, b, <<>>, <<>>, NoLLM, KeyList)
        /\ bounds = bs
        /\ IdleStore

NextBounded == CalculateBoundedDrift

SpecBounded == InitBounded /\ [][NextBounded]_vars

(***************************************************************************)
(* services/timeline_store.py and the timeline write of routers/generate.py*)
(* The text of timeline.jsonl is a sequence of tokens: the braces of a     *)
(* JSON object, one token per "key": value member, a token for a JSON      *)
(* value that is no object, a token for text that is no JSON, and the      *)
(* newline.  json.dumps writes tokens, json.loads parses them back.        *)
(***************************************************************************)
Tok(s)       == [tok |-> s, key |-> "", value |-> NoValue]
Member(k, x) == [tok |-> "member", key |-> k, value |-> x]
Scalar(x)    == [tok |-> "scalar", key |-> "", value |-> x]
Newline      == Tok("\n")
Garbage      == Tok("not json")

\* TimelineEntry.__init__; now is datetime.now().isoformat()
TimelineEntry(run_id, seed, scene_snapshot, patch_summary, output_urls, timestamp, now) ==
    [run_id |-> run_id, seed |-> seed, scene_snapshot |-> scene_snapshot,
     patch_summary |-> patch_summary, output_urls |-> output_urls,
     timestamp |-> IF Truthy(timestamp) THEN timestamp ELSE now]

\* TimelineEntry.to_dict: the members in the order the dict literal has them
to_dict(entry) ==
    <<Member("run_id", entry.run_id), Member("timestamp", entry.timestamp),
      Member("seed", entry.seed), Member("scene_snapshot", entry.scene_snapshot),
      Member("patch_summary", entry.patch_summary), Member("output_urls", entry.output_urls)>>

\* json.dumps of a dict
json_dumps(members) == <<Tok("{")>> \o members \o <<Tok("}")>>

\* the value of the last member with key k (json.loads keeps the last duplicate)
RECURSIVE LastMember(_, _)
LastMember(members, k) ==
    IF members[Len(members)].key = k THEN members[Len(members)].value
    ELSE LastMember(SubSeq(members, 1, Len(members) - 1), k)

\* json.loads: [ok, val]; ok is false for json.JSONDecodeError
json_loads(text) ==
    IF /\ Len(text) >= 2
       /\ text[1] = Tok("{") /\ text[Len(text)] = Tok("}")
       /\ \A i \in 2..(Len(text) - 1) : text[i].tok = "member"
    THEN LET members == SubSeq(text, 2, Len(text) - 1)
         IN  [ok |-> TRUE,
              val |-> MkDict([k \in {members[i].key : i \in 1..Len(members)} |->
                                 LastMember(members, k)])]
    ELSE IF Len(text) = 1 /\ text[1].tok = "scalar"
    THEN [ok |-> TRUE, val |-> text[1].value]
    ELSE [ok |-> FALSE, val |-> PyNone]

\* "for line in f": the text cut after every newline
RECURSIVE ReadLines(_, _)
ReadLines(text, line) ==
    IF text = <<>> THEN (IF line = <<>> THEN <<>> ELSE <<line>>)
    ELSE IF Head(text) = Newline
         THEN <<Append(line, Newline)>> \o ReadLines(Tail(text), <<>>)
    ELSE ReadLines(Tail(text), Append(line, Head(text)))

\* line.strip()
strip(line) == SelectSeq(line, LAMBDA t : t # Newline)

\* open(timeline_file, "a"): the file exists afterwards
open_append(f) == File(f.text)

\* TimelineStore.add_entry(entry): the file afterwards
add_entry(f, entry) == File(open_append(f).text \o json_dumps(to_dict(entry)) \o <<Newline>>)

RequiredKeys == <<"run_id", "seed", "scene_snapshot", "patch_summary", "output_urls">>

\* the loop of get_all_entries over the lines that are left
RECURSIVE ReadEntries(_, _, _)
ReadEntries(lines, entries, now) ==
    IF lines = <<>> THEN ReturnedV(entries)
    ELSE IF strip(Head(lines)) = <<>> THEN ReadEntries(Tail(lines), entries, now)
    ELSE LET data == json_loads(strip(Head(lines)))
         IN  IF ~data.ok THEN ReadEntries(Tail(lines), entries, now)     \* JSONDecodeError: continue
             ELSE IF ~IsDict(data.val) THEN RaisedV                       \* TypeError
             ELSE IF \E i \in 1..Len(RequiredKeys) : RequiredKeys[i] \notin DOMAIN data.val.v
                  THEN RaisedV                                            \* KeyError
             ELSE ReadEntries(Tail(lines),
                      Append(entries,
                          TimelineEntry(data.val.v["run_id"], data.val.v["seed"],
                                        data.val.v["scene_snapshot"], data.val.v["patch_summary"],
                                        data.val.v["output_urls"], Get(data.val, "timestamp"), now)),
                      now)

\* a read that hands back the entries oldest first
get_all_entries_unreversed(f, now) ==
    IF ~f.exists THEN ReturnedV(<<>>)
    ELSE ReadEntries(ReadLines(f.text, <<>>), <<>>, now)

\* TimelineStore.get_all_entries()
get_all_entries(f, now) ==
    IF ~f.exists THEN ReturnedV(<<>>)
    ELSE LET r == ReadEntries(ReadLines(f.text, <<>>), <<>>, now)
         IN  IF r.raised THEN r ELSE ReturnedV(Reverse(r.val))

\* TimelineStore.clear_timeline(): os.remove when the file exists
clear_timeline(f) == NoFile

\* the timeline_entry dict of the /generate route
generate_timeline_entry(run_id, now, seed, base_scene_hash, patch_count, output_urls, num_variants) ==
    <<Member("run_id", run_id), Member("timestamp", now), Member("seed", seed),
      Member("base_scene_hash", base_scene_hash), Member("patch_count", patch_count),
      Member("output_urls", output_urls), Member("num_variants", num_variants),
      Member("status", PyStr("completed"))>>

\* hash(...) % 100000
SeedModulus == 100000

\* POST /generate: [raised, val, file]
\*   n8n_enabled   settings.N8N_ENABLED
\*   request       [base_scene, patch, seed, num_variants]
\*   result        what the n8n workflow answered, NoValue when the call raised
\*   hashed, uuid, now   hash(json.dumps(base_scene)), uuid.uuid4() and
\*                       datetime.now() of this call
generate_images(f, n8n_enabled, request, result, hashed, uuid, now) ==
    IF ~n8n_enabled THEN [raised |-> TRUE, val |-> PyInt(500), file |-> f]
    ELSE IF result = NoValue \/ ~IsDict(result)
    THEN [raised |-> TRUE, val |-> PyInt(500), file |-> f]
    ELSE LET seed == IF request.seed # PyNone THEN request.seed
                     ELSE PyInt(hashed % SeedModulus)
             run_id == GetOr(result, "run_id", uuid)
             output_urls == GetOr(result, "output_urls", PyList(<<>>))
             final_scene == GetOr(result, "scene_used", request.base_scene)
             patch_count == IF request.patch.t = "list" /\ request.patch.v # <<>>
                            THEN PyInt(Len(request.patch.v)) ELSE PyInt(0)
             timeline_entry == generate_timeline_entry(run_id, now, seed, PyInt(hashed), patch_count,
                                                       output_urls, request.num_variants)
         IN  [raised |-> FALSE,
              val |-> [run_id |-> run_id, seed |-> seed, num_variants |-> request.num_variants,
                       output_urls |-> output_urls, scene_used |-> final_scene,
                       timestamp |-> now, via_n8n |-> PyBool(TRUE)],
              file |-> File(open_append(f).text \o json_dumps(timeline_entry) \o <<Newline>>)]

(***************************************************************************)
(* The timeline, one caller at a time.                                     *)
(***************************************************************************)
MaxEntries == 3
MaxReads == 2
MaxClears == 1
MaxGenerates == 2

Clock == {PyStr("t8"), PyStr("t9")}

\* the arguments entries are made of
EntryArgs ==
    {[run_id |-> PyStr(r), seed |-> PyInt(1),
      scene_snapshot |-> IF r = "a" THEN SceneEmpty ELSE SceneZoomed,
      patch_summary |-> PyStr("Modified: camera"),
      output_urls |-> IF r = "a" THEN PyList(<<>>) ELSE PyList(<<PyStr("u1")>>),
      timestamp |-> IF r = "a" THEN PyNone ELSE PyStr("t1")] : r \in {"a", "b"}}

Count(name) == Cardinality({i \in 1..Len(calls) : calls[i] = name})

\* entry = TimelineEntry(...); store.add_entry(entry)
AddEntry ==
    /\ Len(appended) < MaxEntries
    /\ \E a \in EntryArgs, now \in Clock :
          LET entry == TimelineEntry(a.run_id, a.seed, a.scene_snapshot, a.patch_summary,
                                     a.output_urls, a.timestamp, now)
          IN  /\ file' = add_entry(file, entry)
              /\ appended' = Append(appended, [by |-> "add_entry", entry |-> entry])
    /\ ret' = ReturnedV(PyNone)
    /\ calls' = Append(calls, "add_entry")
    /\ UNCHANGED <<heap, scene, other, patch, instruction, llm, order, scene0, ret0, touched>>
    /\ UNCHANGED <<bounds, writers, reads, outbox, served, fibo>>

\* store.get_all_entries()
GetAllEntries ==
    /\ Len(reads) < MaxReads
    /\ \E now \in Clock :
          LET r == get_all_entries(file, now)
          IN  /\ ret' = r
              /\ reads' = Append(reads, [raised |-> r.raised,
                                         val |-> IF r.raised THEN <<>> ELSE r.val,
                                         seen |-> Len(appended)])
    /\ calls' = Append(calls, "get_all_entries")
    /\ UNCHANGED <<heap, scene, other, patch, instruction, llm, order, scene0, ret0, touched>>
    /\ UNCHANGED <<bounds, file, writers, appended, outbox, served, fibo>>

\* store.clear_timeline()
ClearTimeline ==
    /\ Count("clear_timeline") < MaxClears
    /\ file' = clear_timeline(file)
    /\ ret' = ReturnedV(PyNone)
    /\ calls' = Append(calls, "clear_timeline")
    /\ UNCHANGED <<heap, scene, other, patch, instruction, llm, order, scene0, ret0, touched>>
    /\ UNCHANGED <<bounds, writers, appended, reads, outbox, served, fibo>>

\* POST /generate
GenerateRequests ==
    {[base_scene |-> SceneZoomed, patch |-> p, seed |-> sd, num_variants |-> PyInt(1)] :
        p \in {PyNone, PyList(<<OpAdd(<<"camera">>, PyInt(1))>>)}, sd \in {PyNone, PyInt(7)}}
N8NResults ==
    {NoValue, PyList(<<>>), EmptyDict,
     MkDict([k \in {"run_id", "output_urls"} |->
                IF k = "run_id" THEN PyStr("n1") ELSE PyList(<<PyStr("u2")>>)])}

GenerateImages ==
    /\ Len(appended) < MaxEntries
    /\ Count("generate_images") < MaxGenerates
    /\ \E enabled \in BOOLEAN, request \in GenerateRequests, result \in N8NResults,
          now \in Clock :
          LET r == generate_images(file, enabled, request, result, 100007, PyStr("uuid4"), now)
          IN  /\ file' = r.file
              /\ ret' = [raised |-> r.raised, val |-> r.val]
              /\ appended' = IF r.raised THEN appended
                             ELSE Append(appended, [by |-> "generate", entry |-> r.val])
    /\ calls' = Append(calls, "generate_images")
    /\ UNCHANGED <<heap, scene, other, patch, instruction, llm, order, scene0, ret0, touched>>
    /\ UNCHANGED <<bounds, writers, reads, outbox, served, fibo>>

InitTimeline == Start(EmptyDict, EmptyDict, <<>>, <<>>, NoLLM, KeyList)

NextTimeline == AddEntry \/ GetAllEntries \/ ClearTimeline

SpecTimeline == InitTimeline /\ [][NextTimeline]_vars

NextWriters == AddEntry \/ GenerateImages \/ GetAllEntries

SpecWriters == InitTimeline /\ [][NextWriters]_vars

\* what a log that others have written to, or that was cut short, may hold
MaxLines == 3
EntryA == TimelineEntry(PyStr("a"), PyInt(1), SceneEmpty, PyStr("init"), PyList(<<>>),
                        PyStr("t1"), PyStr("t1"))
EntryB == TimelineEntry(PyStr("b"), PyInt(2), SceneZoomed, PyStr("init"), PyList(<<PyStr("u1")>>),
                        PyStr("t2"), PyStr("t2"))
LogLines ==
    {json_dumps(to_dict(EntryA)) \o <<Newline>>,
     json_dumps(to_dict(EntryB)) \o <<Newline>>,
     <<Garbage, Newline>>,                                   \* text that is no JSON
     <<Newline>>,                                            \* an empty line
     SubSeq(json_dumps(to_dict(EntryA)), 1, 4) \o <<Newline>>,         \* a line cut short
     json_dumps(SubSeq(to_dict(EntryB), 1, 3)) \o <<Newline>>,         \* an object lacking fields
     <<Scalar(PyInt(5)), Newline>>}                          \* a JSON value that is no object

RECURSIVE Concat(_)
Concat(ss) == IF ss = <<>> THEN <<>> ELSE Head(ss) \o Concat(Tail(ss))

LogTexts == {Concat(ls) : ls \in UNION {[1..n -> LogLines] : n \in 0..MaxLines}}

InitCorrupt ==
    \E text \in LogTexts :
        /\ Caller(EmptyDict, EmptyDict, <<>>, <<>>, NoLLM, KeyList)
        /\ bounds = PyNone
        /\ file = File(text)
        /\ writers = <<>>
        /\ appended = <<>>
        /\ reads = <<>>
        /\ outbox = <<>>
        /\ served = NoValue
        /\ fibo = IdleFibo

NextCorrupt == GetAllEntries

SpecCorrupt == InitCorrupt /\ [][NextCorrupt]_vars

(***************************************************************************)
(* Writers appending to the timeline at the same time (several workers or  *)
(* threads).  Neither add_entry nor the /generate route takes a lock:      *)
(* each opens the file in append mode and writes its line.  The buffered   *)
(* text is handed to the operating system in one or more write calls, each *)
(* of which appends its bytes at the current end of the file.              *)
(***************************************************************************)
MaxWriters == 2
MaxChunks == 2

\* a writer has opened the file and holds the line it is about to write
BeginAddEntry ==
    /\ Len(writers) < MaxWriters
    /\ \E a \in EntryArgs, now \in Clock :
          LET entry == TimelineEntry(a.run_id, a.seed, a.scene_snapshot, a.patch_summary,
                                     a.output_urls, a.timestamp, now)
              line == json_dumps(to_dict(entry)) \o <<Newline>>
          IN  writers' = Append(writers, [by |-> "add_entry", line |-> line,
                                          left |-> line, chunks |-> 0])
    /\ file' = open_append(file)
    /\ calls' = Append(calls, "open")
    /\ UNCHANGED <<heap, scene, other, patch, instruction, llm, order, ret, scene0, ret0, touched>>
    /\ UNCHANGED <<bounds, appended, reads, outbox, served, fibo>>

\* the /generate route has its answer from n8n and opens the file
BeginGenerate ==
    /\ Len(writers) < MaxWriters
    /\ \E now \in Clock :
          LET line == json_dumps(generate_timeline_entry(PyStr("n1"), now, PyInt(7), PyInt(100007),
                                     PyInt(0), PyList(<<>>), PyInt(1))) \o <<Newline>>
          IN  writers' = Append(writers, [by |-> "generate", line |-> line,
                                          left |-> line, chunks |-> 0])
    /\ file' = open_append(file)
    /\ calls' = Append(calls, "open")
    /\ UNCHANGED <<heap, scene, other, patch, instruction, llm, order, ret, scene0, ret0, touched>>
    /\ UNCHANGED <<bounds, appended, reads, outbox, served, fibo>>

\* one write call of writer w: the next n tokens go to the end of the file
WriteSome(w) ==
    /\ writers[w].left # <<>>
    /\ \E n \in 1..Len(writers[w].left) :
          /\ writers[w].chunks + 1 = MaxChunks => n = Len(writers[w].left)
          /\ file' = File(file.text \o SubSeq(writers[w].left, 1, n))
          /\ writers' = [writers EXCEPT
                            ![w].left = SubSeq(writers[w].left, n + 1, Len(writers[w].left)),
                            ![w].chunks = writers[w].chunks + 1]
    /\ calls' = Append(calls, "write")
    /\ UNCHANGED <<heap, scene, other, patch, instruction, llm, order, ret, scene0, ret0, touched>>
    /\ UNCHANGED <<bounds, appended, reads, outbox, served, fibo>>

Write == \E w \in 1..Len(writers) : WriteSome(w)

NextConcurrent == BeginAddEntry \/ BeginGenerate \/ Write

SpecConcurrent == InitTimeline /\ [][NextConcurrent]_vars

(***************************************************************************)
(* services/patcher.py: validate_patch_operations.  Here an operation is   *)
(* the Python value the caller passed: a dict with str keys, or something  *)
(* else; a path is the str it holds.                                       *)
(***************************************************************************)
\* type(x), as the messages show it
TypeName(x) == x.t

\* what an error message shows: its text and the value formatted into it
ValueError(message, shows) == [raised |-> TRUE, val |-> [message |-> message, shows |-> shows]]

required_fields == {"op", "path"}

\* validate_patch_operations(patch_ops), from operation i on
RECURSIVE ValidateFrom(_, _)
ValidateFrom(patch_ops, i) ==
    IF i > Len(patch_ops) THEN ReturnedV(PyBool(TRUE))
    ELSE LET op == patch_ops[i]
         IN  IF ~IsDict(op)
             THEN ValueError("Patch operation must be dict, got", PyStr(TypeName(op)))
             ELSE IF ~(required_fields \subseteq DOMAIN op.v)
             THEN ValueError("Patch operation missing required fields:", PySet(required_fields))
             ELSE IF ~(op.v["op"].t = "str" /\ op.v["op"].v \in ValidOps)
             THEN ValueError("Invalid patch operation:", op.v["op"])
             ELSE IF op.v["path"].t # "str"
             THEN ValueError("Patch path must be string, got", PyStr(TypeName(op.v["path"])))
             ELSE ValidateFrom(patch_ops, i + 1)

validate_patch_operations(patch_ops) == ValidateFrom(patch_ops, 1)

ValidatePatchOperations ==
    /\ calls = <<>>
    /\ ret' = validate_patch_operations(patch)
    /\ calls' = Append(calls, "validate_patch_operations")
    /\ UNCHANGED <<heap, scene, other, patch, instruction, llm, order, scene0, ret0, touched>>
    /\ UNCHANGED store_vars

RawOp(fields, o, p) ==
    MkDict([k \in fields |-> CASE k = "op" -> o [] k = "path" -> p [] OTHER -> PyInt(1)])

RawOps ==
    {RawOp({"op", "path", "value"}, PyStr("add"), PyStr("/camera")),
     RawOp({"op", "path"}, PyStr("remove"), PyStr("/no/such/member")),
     RawOp({"op", "value"}, PyStr("add"), PyNone),
     RawOp({"op"}, PyStr("remove"), PyNone),
     RawOp({"path"}, PyNone, PyStr("/camera")),
     RawOp({"op", "path"}, PyStr("delete"), PyStr("/camera")),
     RawOp({"op", "path", "value"}, PyStr("add"), PyInt(5)),
     PyStr("add")}

RawPatches == UNION {[1..n -> RawOps] : n \in 0..MaxPatchLen}

InitValidate ==
    \E p \in RawPatches : Start(EmptyDict, EmptyDict, p, <<>>, NoLLM, KeyList)

NextValidate == ValidatePatchOperations

SpecValidate == InitValidate /\ [][NextValidate]_vars

(***************************************************************************)
(* services/n8n_client.py and the routes that call it.  A response is what *)
(* the webhook does with the request:                                      *)
(*   kind  "connect_error", "timeout"   httpx raises                       *)
(*         "answer"                     a response with a status and a     *)
(*                                      body; NoValue is a body that is no *)
(*                                      JSON                               *)
(***************************************************************************)
Response(kind, status, body) == [kind |-> kind, status |-> status, body |-> body]

\* call_n8n_workflow(workflow_name, payload, timeout): every failure leaves
\* as an Exception
call_n8n_workflow(workflow_name, payload, response) ==
    IF response.kind # "answer" THEN RaisedV
    ELSE IF response.status >= 400 THEN RaisedV
    ELSE IF response.body = NoValue THEN RaisedV
    ELSE ReturnedV(response.body)

\* what a client function hands back: [raised, val, payload]
Called(payload, r) == [raised |-> r.raised, val |-> r.val, payload |-> payload]

\* n8n_client.translate_instruction: the payload it posts
translate_payload(instruction_, current_scene, return_patch) ==
    [workflow |-> "translate", instruction |-> instruction_,
     current_scene |-> current_scene, return_patch |-> return_patch]

\* n8n_client.translate_instruction
translate_instruction(payload, response) ==
    Called(payload, call_n8n_workflow("translate", payload, response))

\* the try/except around JsonPatch(patch).apply: a patch that does not apply
\* leaves final_scene the copy of base_scene
ApplyOrKeep(run, base_scene) == IF run.ok THEN run.doc ELSE base_scene

\* n8n_client.generate_images: final_scene
final_scene_of(base_scene, patch_, apply_patch_) ==
    IF patch_.t = "list" /\ patch_.v # <<>> /\ apply_patch_
    THEN ApplyOrKeep(JsonPatchRun(base_scene, patch_.v), base_scene)
    ELSE base_scene

\* n8n_client.generate_images: the payload it posts
\*   hash_of   hash(json.dumps(doc, sort_keys=True)) of this process
generate_payload(final_scene, seed, num_variants, patch_, apply_patch_, hash_of) ==
    [workflow |-> "generate",
     base_scene |-> final_scene,
     seed |-> IF Truthy(seed) THEN seed ELSE PyInt(hash_of[final_scene] % SeedModulus),
     num_variants |-> num_variants,
     patch |-> patch_,
     apply_patch |-> apply_patch_]

\* n8n_client.generate_images
n8n_generate(payload, response) ==
    Called(payload, call_n8n_workflow("generate", payload, response))

HTTPException(status_code) == [raised |-> TRUE, val |-> PyInt(status_code)]

\* POST /translate after the client has returned or raised: TranslateResponse
\* validates its fields
translate_response(request_, call, uuid) ==
    IF call.raised \/ ~IsDict(call.val)
    THEN HTTPException(500) @@ [sent |-> <<call.payload>>]
    ELSE IF \/ ~IsDict(GetOr(call.val, "updated_scene", request_.current_scene))
            \/ ~IsNumber(GetOr(call.val, "confidence", PyFloat(85)))
            \/ GetOr(call.val, "reasoning", PyStr("Translation via Cerebras LLM")).t # "str"
    THEN HTTPException(500) @@ [sent |-> <<call.payload>>]
    ELSE [raised |-> FALSE,
          val |-> [translation_id |-> GetOr(call.val, "translation_id", uuid),
                   instruction |-> request_.instruction,
                   updated_scene |-> GetOr(call.val, "updated_scene", request_.current_scene),
                   patch |-> IF request_.return_patch
                             THEN GetOr(call.val, "patch", PyNone) ELSE PyNone,
                   diff_summary |-> GetOr(call.val, "reasoning",
                                          PyStr("Translation via Cerebras LLM")),
                   confidence |-> GetOr(call.val, "confidence", PyFloat(85))],
          sent |-> <<call.payload>>]

\* POST /translate: [raised, val, sent]; the 503 raised inside the try is
\* caught by "except Exception" and leaves as a 500
\*   request_   [instruction, current_scene, return_patch]
translate(n8n_enabled, request_, response, uuid) ==
    IF ~n8n_enabled THEN HTTPException(500) @@ [sent |-> <<>>]
    ELSE translate_response(request_,
             translate_instruction(translate_payload(request_.instruction,
                                                     request_.current_scene,
                                                     request_.return_patch), response),
             uuid)

\* seed = request.seed if request.seed is not None else hash(...) % 100000
route_seed(request_, hashed) ==
    IF request_.seed # PyNone THEN request_.seed ELSE PyInt(hashed % SeedModulus)

\* POST /generate after the client has returned or raised
generate_response(f, request_, call, hashed, uuid, now) ==
    generate_images(f, TRUE, request_, IF call.raised THEN NoValue ELSE call.val,
                    hashed, uuid, now) @@ [sent |-> <<call.payload>>]

\* POST /generate with the client it calls: [raised, val, file, sent]
\*   request_   [base_scene, patch, seed, num_variants, apply_patch]
post_generate(f, n8n_enabled, request_, response, hash_of, uuid, now) ==
    IF ~n8n_enabled
    THEN generate_images(f, FALSE, request_, NoValue, 0, uuid, now) @@ [sent |-> <<>>]
    ELSE generate_response(f, request_,
             n8n_generate(
                 generate_payload(
                     final_scene_of(request_.base_scene, request_.patch, request_.apply_patch),
                     route_seed(request_, hash_of[request_.base_scene]),
                     request_.num_variants, request_.patch, request_.apply_patch, hash_of),
                 response),
             hash_of[request_.base_scene], uuid, now)

(***************************************************************************)
(* The two routes, one request at a time.                                  *)
(***************************************************************************)
FailedResponses ==
    {Response("connect_error", 0, NoValue), Response("timeout", 0, NoValue),
     Response("answer", 500, NoValue), Response("answer", 200, NoValue)}

Served(n8n_enabled, body, response) ==
    [n8n_enabled |-> n8n_enabled, body |-> body, response |-> response]

TranslateRequests ==
    {[instruction |-> ins, current_scene |-> doc, return_patch |-> rp] :
        ins \in {<<"s", "a", "y", " ", "h", "e", "l", "l", "o">>, <<"z", "o", "o", "m", " ", "i", "n">>},
        doc \in {SceneEmpty, SceneFull},
        rp \in BOOLEAN}

TranslateResponses ==
    FailedResponses \cup
    {Response("answer", 200, body) : body \in
        {EmptyDict, PyList(<<>>),
         Dict1("updated_scene", PyStr("none")),
         MkDict([k \in {"updated_scene", "patch", "confidence", "reasoning"} |->
                    CASE k = "updated_scene" -> SceneZoomed
                      [] k = "patch" -> PyList(<<>>)
                      [] k = "confidence" -> PyFloat(95)
                      [] OTHER -> PyStr("zoomed")])}}

PostTranslate ==
    /\ calls = <<>>
    /\ \E n8n_enabled \in BOOLEAN, req \in TranslateRequests, response \in TranslateResponses :
          \E r \in {translate(n8n_enabled, req, response, PyStr("uuid4"))} :
              /\ ret' = [raised |-> r.raised, val |-> r.val]
              /\ outbox' = outbox \o r.sent
              /\ served' = Served(n8n_enabled, req, response)
    /\ calls' = Append(calls, "translate")
    /\ UNCHANGED <<heap, scene, other, patch, instruction, llm, order, scene0, ret0, touched>>
    /\ UNCHANGED <<bounds, file, writers, appended, reads, fibo>>

InitPostTranslate == Start(EmptyDict, EmptyDict, <<>>, <<>>, NoLLM, KeyList)

NextPostTranslate == PostTranslate

SpecPostTranslate == InitPostTranslate /\ [][NextPostTranslate]_vars

\* requests with a patch that applies, one that does not, and the seeds
\* None, 0 and 7
RouteRequests ==
    {[base_scene |-> SceneZoomed, patch |-> p, seed |-> sd, num_variants |-> PyInt(1),
      apply_patch |-> ap] :
        p \in {PyNone,
               PyList(<<OpReplace(<<"camera", "lens_mm">>, PyInt(35))>>),
               PyList(<<OpRemove(<<"subject">>)>>)},
        sd \in {PyNone, PyInt(0), PyInt(7)},
        ap \in BOOLEAN}

GenerateResponses ==
    FailedResponses \cup
    {Response("answer", 200, body) : body \in
        {EmptyDict,
         MkDict([k \in {"run_id", "output_urls"} |->
                    IF k = "run_id" THEN PyStr("n1") ELSE PyList(<<PyStr("u2")>>)])}}

\* values of hash(...); the second is a multiple of SeedModulus
HashValues == {100007, 200000}

\* the documents a request has hashed: the base scene and the patched one
Hashes(req, hb, hf) ==
    LET run == JsonPatchRun(req.base_scene, IF req.patch.t = "list" THEN req.patch.v ELSE <<>>)
    IN  [d \in {req.base_scene, run.doc} |-> IF d = req.base_scene THEN hb ELSE hf]

PostGenerate ==
    /\ calls = <<>>
    /\ \E n8n_enabled \in BOOLEAN, req \in RouteRequests, response \in GenerateResponses,
          hb \in HashValues, hf \in HashValues, now \in Clock :
          \E r \in {post_generate(file, n8n_enabled, req, response, Hashes(req, hb, hf),
                                   PyStr("uuid4"), now)} :
              /\ file' = r.file
              /\ ret' = [raised |-> r.raised, val |-> r.val]
              /\ appended' = IF r.raised THEN appended
                             ELSE Append(appended, [by |-> "generate", entry |-> r.val])
              /\ outbox' = outbox \o r.sent
              /\ served' = Served(n8n_enabled, req, response)
    /\ calls' = Append(calls, "generate_images")
    /\ UNCHANGED <<heap, scene, other, patch, instruction, llm, order, scene0, ret0, touched>>
    /\ UNCHANGED <<bounds, writers, reads, fibo>>

InitPostGenerate == Start(EmptyDict, EmptyDict, <<>>, <<>>, NoLLM, KeyList)

NextPostGenerate == PostGenerate

SpecPostGenerate == InitPostGenerate /\ [][NextPostGenerate]_vars

(***************************************************************************)
(* services/fibo_client.py: generate_with_fibo_or_demo, one step per       *)
(* request to the Bria API.  Every request has a timeout, so each step     *)
(* ends: with a response or with an exception.                             *)
(***************************************************************************)
max_polls == 120

\* the paths the function returns
ImagePath == "outputs/fibo_output_<request_id>_<variant_index>.png"
DemoPath  == "outputs/demo_output_<seed>_<variant_index>"

\* return await _generate_demo(scene, seed, variant_index)
generate_demo(f) == [f EXCEPT !.pc = "done", !.ret = ReturnedV(PyStr(DemoPath))]

\* what the submit request can bring
SubmitOutcomes ==
    {"exception", "status_500", "no_json", "no_status_url", "no_request_id", "accepted"}

\* generate_with_fibo_or_demo up to the answer of the submit request
submit(f, demo_mode, api_key, outcome) ==
    IF demo_mode THEN generate_demo(f)
    ELSE IF ~api_key THEN generate_demo(f)
    ELSE IF outcome # "accepted" THEN generate_demo(f)
    ELSE [f EXCEPT !.pc = "polling"]

\* what one round of the polling loop can bring: the status request, and
\* after COMPLETED the download and the saving of the image
PollOutcomes ==
    {"exception", "status_500", "no_json", "IN_PROGRESS", "UNKNOWN", "ERROR",
     "COMPLETED_no_image_url", "COMPLETED_download_404", "COMPLETED_download_exception",
     "COMPLETED_save_failed", "COMPLETED_saved"}

\* while poll_count < max_polls
KeepPolling_once_more(f) == f.poll_count <= max_polls
KeepPolling(f) == f.poll_count < max_polls

\* one round of the loop
poll(f, outcome) ==
    LET g == [f EXCEPT !.poll_count = @ + 1]
    IN  CASE outcome \in {"status_500", "IN_PROGRESS", "UNKNOWN"} -> g
          [] outcome = "COMPLETED_saved" ->
                [g EXCEPT !.pc = "done", !.downloaded = TRUE, !.ret = ReturnedV(PyStr(ImagePath))]
          [] OTHER -> generate_demo(g)

CallFibo ==
    /\ fibo.pc = "idle"
    /\ \E demo_mode \in BOOLEAN, api_key \in BOOLEAN, outcome \in SubmitOutcomes :
          fibo' = submit(fibo, demo_mode, api_key, outcome)
    /\ UNCHANGED <<heap, scene, other, patch, instruction, llm, order, calls, ret, scene0, ret0,
                   touched>>
    /\ UNCHANGED <<bounds, file, writers, appended, reads, outbox, served>>

Poll ==
    /\ fibo.pc = "polling"
    /\ KeepPolling(fibo)
    /\ \E outcome \in PollOutcomes : fibo' = poll(fibo, outcome)
    /\ UNCHANGED <<heap, scene, other, patch, instruction, llm, order, calls, ret, scene0, ret0,
                   touched>>
    /\ UNCHANGED <<bounds, file, writers, appended, reads, outbox, served>>

\* the loop ends without a result: "timed out after {max_polls} seconds"
PollTimeout ==
    /\ fibo.pc = "polling"
    /\ ~KeepPolling(fibo)
    /\ fibo' = generate_demo([fibo EXCEPT !.timed_out = TRUE])
    /\ UNCHANGED <<heap, scene, other, patch, instruction, llm, order, calls, ret, scene0, ret0,
                   touched>>
    /\ UNCHANGED <<bounds, file, writers, appended, reads, outbox, served>>

InitFibo == Start(EmptyDict, EmptyDict, <<>>, <<>>, NoLLM, KeyList)

NextFibo == CallFibo \/ Poll \/ PollTimeout

SpecFibo == InitFibo /\ [][NextFibo]_vars

\* the event loop runs the coroutine on: a step that can be taken is taken
SpecFiboFair == SpecFibo /\ WF_vars(NextFibo)

(***************************************************************************)
(* services/drift.py: get_numeric_differences and get_impact_summary as    *)
(* operations of their own.                                                *)
(***************************************************************************)
\* k.startswith(prefix), k a dotted path; of the section names only
\* "constraints" has the prefix "constraint" without being the prefix itself
startswith(k, prefix) ==
    \/ Head(k) = prefix
    \/ prefix = "constraint" /\ Head(k) = "constraints"

DomainPrefixes == {"camera", "lighting", "color", "constraint"}

\* get_impact_summary(original, modified)
get_impact_summary(original, modified) ==
    LET modified_keys == get_modified_keys(original, modified)
        numeric_diffs == get_numeric_differences(original, modified)
        drift_score == calculate_drift_score(original, modified)
    IN  IF modified_keys.raised \/ drift_score.raised THEN RaisedV
        ELSE ReturnedV(
            [drift_score |-> drift_score.val,
             total_changes |-> Cardinality(modified_keys.val),
             modified_keys |-> modified_keys.val,
             numeric_differences |-> numeric_diffs,
             changes_by_domain |->
                 [d \in {"camera", "lighting", "color", "constraints", "other"} |->
                     CASE d = "camera"      -> {k \in modified_keys.val : startswith(k, "camera")}
                       [] d = "lighting"    -> {k \in modified_keys.val : startswith(k, "lighting")}
                       [] d = "color"       -> {k \in modified_keys.val : startswith(k, "color")}
                       [] d = "constraints" -> {k \in modified_keys.val : startswith(k, "constraint")}
                       [] OTHER             -> {k \in modified_keys.val :
                                                   ~\E prefix \in DomainPrefixes : startswith(k, prefix)}]])

GetNumericDifferences ==
    /\ calls = <<>>
    /\ ret' = ReturnedV(get_numeric_differences(Deep(heap, scene), Deep(heap, other)))
    /\ calls' = Append(calls, "get_numeric_differences")
    /\ scene0' = Deep(heap, scene)
    /\ ret0' = Deep(heap, other)
    /\ UNCHANGED <<heap, scene, other, patch, instruction, llm, order, touched>>
    /\ UNCHANGED store_vars

GetImpactSummary ==
    /\ calls = <<>>
    /\ ret' = get_impact_summary(Deep(heap, scene), Deep(heap, other))
    /\ calls' = Append(calls, "get_impact_summary")
    /\ scene0' = Deep(heap, scene)
    /\ ret0' = Deep(heap, other)
    /\ UNCHANGED <<heap, scene, other, patch, instruction, llm, order, touched>>
    /\ UNCHANGED store_vars

\* a scene before and after an edit: the lens becomes a float of the same
\* magnitude, the tilt and the lock change, the style is renamed
SceneGraded ==
    MkDict([j \in {"camera", "constraints", "style"} |->
        CASE j = "camera" -> MkDict([l \in {"lens_mm", "tilt"} |->
                                 IF l = "lens_mm" THEN PyInt(50) ELSE PyInt(0)])
          [] j = "constraints" -> Dict1("lock_composition", PyBool(FALSE))
          [] OTHER -> PyStr("noir")])
SceneRegraded ==
    MkDict([j \in {"camera", "constraints", "style"} |->
        CASE j = "camera" -> MkDict([l \in {"lens_mm", "tilt"} |->
                                 IF l = "lens_mm" THEN PyFloat(5000) ELSE PyInt(15)])
          [] j = "constraints" -> Dict1("lock_composition", PyBool(TRUE))
          [] OTHER -> PyStr("pop")])

ImpactScenes == SceneGraphs \cup {SceneGraded, SceneRegraded}

InitImpact ==
    \E a \in ImpactScenes, b \in ImpactScenes : Start(a, b, <<>>, <<>>, NoLLM, KeyList)

NextImpact == GetNumericDifferences \/ GetImpactSummary

SpecImpact == InitImpact /\ [][NextImpact]_vars

(***************************************************************************)
(* Properties.                                                             *)
(***************************************************************************)
OtherDoc == Deep(heap, other)

C2_Atomic ==
    (calls = <<"apply_patch">> /\ ~JsonPatchRun(scene0, patch).ok) =>
        /\ ret.raised
        /\ ret.val = PyNone
        /\ Deep(heap, scene) = scene0

\* the second operation failed after the first had changed the working copy
C2_Witness ==
    /\ calls = <<"apply_patch">>
    /\ ret.raised
    /\ JsonPatchRun(scene0, patch).at = 2
    /\ JsonPatchRun(scene0, patch).doc # scene0

\* C3: the empty patch returns a document deep-equal to the input and
\* independent of it: mutating the returned document at any depth leaves
\* the input unchanged, and mutating the input leaves the returned one unchanged.
C3_EmptyPatchCopy ==
    (calls = <<"apply_patch">> /\ patch = <<>>) =>
        /\ ~ret.raised
        /\ ret.val # scene
        /\ ret0 = scene0
        /\ touched = "ret" => Deep(heap, scene) = scene0
        /\ touched = "scene" => Deep(heap, ret.val) = ret0

\* the caller has mutated a nested dict of the document the empty patch returned
C3_Witness ==
    /\ calls = <<"apply_patch">>
    /\ patch = <<>>
    /\ touched = "ret"
    /\ \E k \in DOMAIN ret0.v :
          IsDict(ret0.v[k]) /\ Deep(heap, ret.val).v[k] # ret0.v[k]

\* C4: translate_with_rules never mutates the scene it is given: after it
\* returns, current_scene is deep-equal, at every nesting level, to its
\* value before the call.
C4_SceneNotMutated ==
    calls = <<"translate_with_rules">> => Deep(heap, scene) = scene0

\* C5: the patch returned by translate_with_rules is the structural diff
\* between the scene before the call and updated_scene: applied to the
\* pre-call scene it yields a document deep-equal to updated_scene.
C5_PatchIsDiff ==
    calls = <<"translate_with_rules">> =>
        LET r == JsonPatchRun(scene0, ret.val.patch)
        IN  r.ok /\ PyEq(r.doc, ret0)

\* a translation result with the scene it refers to replaced by its value
ResultValue(h, r) ==
    [k \in DOMAIN r |-> IF k = "updated_scene" THEN Deep(h, r[k]) ELSE r[k]]

\* the result of the rule-based translator for an instruction and a scene
RulesResult(ins, doc, ord) ==
    LET a == Alloc(<<>>, doc)
        r == translate_with_rules(a.h, ins, a.x, ord)
    IN  ResultValue(r.h, r.val)

\* the external attempt fails: network error or timeout, non-200 response,
\* unparseable JSON, a response not of the expected shape (no list "patch",
\* no mapping "updated_scene", a "confidence" that is no number), or a
\* candidate patch that does not apply to the scene
ExternalAttemptFails(l, doc) ==
    \/ l.outcome \in FailedOutcomes
    \/ l.patch.t # "list"
    \/ ~IsDict(l.updated_scene)
    \/ (l.confidence # NoValue /\ ~IsNumber(l.confidence))
    \/ ~JsonPatchRun(doc, l.patch.v).ok

\* C6: whenever the LLM translator is enabled and the external attempt
\* fails in any way, translate_with_fallback does not raise and returns
\* exactly the result of the rule-based translator.
C6_FallbackOnFailure ==
    (/\ calls = <<"translate_with_fallback">>
     /\ llm.use_llm /\ llm.api_key
     /\ ExternalAttemptFails(llm, scene0)) =>
        /\ ~ret.raised
        /\ ResultValue(heap, ret.val) = RulesResult(instruction, scene0, order)

\* only the rule-based translator puts a diff_summary into its result
IsExternal(r) == "diff_summary" \notin DOMAIN r

\* C7: whenever translate_with_fallback returns an externally produced
\* result, its patch applies to the original scene and its updated_scene is
\* deep-equal to the document that applying the patch yields.
C7_ValidatedPair ==
    (calls = <<"translate_with_fallback">> /\ IsExternal(ret.val)) =>
        LET r == JsonPatchRun(scene0, ret.val.patch)
        IN  r.ok /\ PyEq(r.doc, ret0)

\* C8: for every pair of SceneGraphs, equal or not, calculate_drift_score
\* completes and returns a number in [0.0, 1.0].
C8_ScoreInUnitInterval ==
    calls = <<"calculate_drift_score">> =>
        /\ ~ret.raised
        /\ 0 <= ret.val.num
        /\ ret.val.num <= ret.val.den

\* the set of modified key paths as the docstring of get_modified_keys describes it
RECURSIVE ModifiedKeysOf(_, _)
ModifiedKeysOf(a, b) ==
    LET ks == (DOMAIN a.v) \cup (DOMAIN b.v)
        differ == {k \in ks : ~PyEq(Get(a, k), Get(b, k))}
        nested == {k \in differ : IsDict(Get(a, k)) /\ IsDict(Get(b, k))}
    IN  {<<k>> : k \in differ \ nested}
        \cup UNION {{<<k>> \o p : p \in ModifiedKeysOf(a.v[k], b.v[k])} : k \in nested}

\* the dotted key-paths reachable through every nested mapping
RECURSIVE AllKeysOf(_)
AllKeysOf(a) ==
    UNION {{<<k>>} \cup (IF IsDict(a.v[k]) THEN {<<k>> \o p : p \in AllKeysOf(a.v[k])} ELSE {}) :
              k \in DOMAIN a.v}

\* C9: the score is 0 for deep-equal documents and otherwise
\* min(1, |modifiedKeys| / |allKeys(original) union allKeys(modified)|).
C9_ScoreFormula ==
    calls = <<"calculate_drift_score">> =>
        LET m == Cardinality(ModifiedKeysOf(scene0, OtherDoc))
            n == Cardinality(AllKeysOf(scene0) \cup AllKeysOf(OtherDoc))
        IN  /\ ~ret.raised
            /\ IF PyEq(scene0, OtherDoc) THEN ret.val.num = 0
               ELSE IF m >= n THEN ret.val.num = ret.val.den
               ELSE ret.val.num * n = m * ret.val.den

\* C10: get_modified_keys returns exactly the set of dotted paths whose
\* values differ and are not both mappings; the set is empty for deep-equal
\* documents and the same when the two arguments are swapped.
C10_ModifiedKeys ==
    calls = <<"get_modified_keys">> =>
        /\ ~ret.raised
        /\ ret.val = ModifiedKeysOf(scene0, OtherDoc)
        /\ ret.val = ModifiedKeysOf(OtherDoc, scene0)
        /\ PyEq(scene0, OtherDoc) => ret.val = {}

\* whether a lock is set to true in the constraints of a scene
LockSet(doc, lock) ==
    /\ "constraints" \in DOMAIN doc.v
    /\ lock \in DOMAIN doc.v["constraints"].v
    /\ doc.v["constraints"].v[lock] = PyBool(TRUE)

\* the fields of the camera section of a scene (none when it has no camera)
CameraFields(doc) == IF "camera" \in DOMAIN doc.v THEN doc.v["camera"].v ELSE <<>>

\* some camera field is on one side only, or has another value there
CameraDiffers(a, b) ==
    LET f == CameraFields(a)
        g == CameraFields(b)
    IN  \E k \in (DOMAIN f) \cup (DOMAIN g) :
            \/ k \notin DOMAIN f
            \/ k \notin DOMAIN g
            \/ ~PyEq(f[k], g[k])

Reports(message) == ~ret.raised /\ \E i \in 1..Len(ret.val) : ret.val[i] = message

\* C11: check_constraint_violations reports a violation whenever
\* original.constraints.lock_composition is true and the camera sections
\* differ in any field, and reports no composition violation whenever the
\* camera sections are identical.
C11_CompositionLock ==
    calls = <<"check_constraint_violations">> =>
        /\ (LockSet(scene0, "lock_composition") /\ CameraDiffers(scene0, OtherDoc))
              => Reports(CompositionMessage)
        /\ ~CameraDiffers(scene0, OtherDoc)
              => ~ret.raised /\ ~Reports(CompositionMessage)

\* a locked composition whose lens was changed, reported
C11_Witness ==
    /\ calls = <<"check_constraint_violations">>
    /\ LockSet(scene0, "lock_composition")
    /\ "camera" \in DOMAIN scene0.v /\ "camera" \in DOMAIN OtherDoc.v
    /\ CameraDiffers(scene0, OtherDoc)
    /\ Reports(CompositionMessage)

\* C12: for an original scene whose constraints carry the subject lock as
\* the rest of the system writes it (constraints.lock_subject_identity =
\* true), check_constraint_violations reports a violation whenever the
\* subject section differs between original and modified.
C12_SubjectLock ==
    (/\ calls = <<"check_constraint_violations">>
     /\ LockSet(scene0, "lock_subject_identity")
     /\ ~PyEq(Get(scene0, "subject"), Get(OtherDoc, "subject")))
        => Reports(SubjectMessage)

\* the bound violations the changed numeric paths call for
ExpectedBoundViolations(a, b, bs) ==
    IF ~IsDict(bs) THEN {}
    ELSE {BoundMessage(d, bs.v[d.path]) :
            d \in {e \in get_numeric_differences(a, b) :
                      /\ e.path \in DOMAIN bs.v
                      /\ (e.new.v < bs.v[e.path][1] \/ e.new.v > bs.v[e.path][2])}}

\* camera.lens_mm of a scene, None when it has none
LensOf(doc) ==
    IF IsDict(Get(doc, "camera")) THEN Get(Get(doc, "camera"), "lens_mm") ELSE PyNone

\* C13: calculate_bounded_drift returns one bound violation for each changed
\* numeric path that has a declared bound and whose new value lies outside
\* [min, max], and is_valid is true exactly when there is none; the bound
\* camera/lens_mm (14, 300) with lens_mm set to 400 gives exactly one
\* violation and is_valid = false.
C13_BoundedDrift ==
    calls = <<"calculate_bounded_drift">> =>
        /\ ~ret.raised
        /\ ret.val.bound_violations = ExpectedBoundViolations(scene0, OtherDoc, bounds)
        /\ ret.val.is_valid <=> (ret.val.bound_violations = {})
        /\ (/\ bounds = MkDict([p \in {LensPath} |-> <<1400, 30000>>])
            /\ LensOf(scene0) = PyInt(50)
            /\ LensOf(OtherDoc) = PyInt(400))
              => Cardinality(ret.val.bound_violations) = 1 /\ ~ret.val.is_valid

\* the read handed back the first n appended entries, the last appended first
ReadsBack(read, n) ==
    /\ ~read.raised
    /\ Len(read.val) = n
    /\ \A j \in 1..n : read.val[j] = appended[n + 1 - j].entry

\* C14: starting from an empty log, after N add_entry calls get_all_entries
\* returns exactly N entries, the last appended first, each with the run_id,
\* seed, scene_snapshot, patch_summary, output_urls and timestamp appended.
C14_ReadAll ==
    Count("clear_timeline") = 0 =>
        \A i \in 1..Len(reads) : ReadsBack(reads[i], reads[i].seen)

\* three entries appended, not all alike, then read
C14_Witness ==
    /\ Count("clear_timeline") = 0
    /\ \E i \in 1..Len(reads) :
          /\ reads[i].seen = 3
          /\ Len(reads[i].val) = 3
          /\ appended[1].entry # appended[2].entry
          /\ appended[2].entry # appended[3].entry

\* the entries of the lines that are JSON objects with every required field
ValidEntries(text) ==
    LET lines == ReadLines(text, <<>>)
        valid(line) == LET d == json_loads(strip(line))
                       IN  /\ d.ok
                           /\ IsDict(d.val)
                           /\ \A i \in 1..Len(RequiredKeys) : RequiredKeys[i] \in DOMAIN d.val.v
        good == SelectSeq(lines, valid)
    IN  [i \in 1..Len(good) |-> json_loads(strip(good[i])).val.v]

\* C15: for any log content get_all_entries never aborts; every line that
\* cannot be turned into a TimelineEntry (no valid JSON, a JSON value that
\* lacks a required field or is no object) is skipped, and all the valid
\* entries are still returned.
C15_SkipsMalformed ==
    (calls = <<"get_all_entries">> /\ file.exists) =>
        LET good == ValidEntries(file.text)
        IN  /\ ~ret.raised
            /\ Len(ret.val) = Len(good)
            /\ \A j \in 1..Len(good) :
                  LET e == ret.val[Len(good) + 1 - j]
                  IN  \A i \in 1..Len(RequiredKeys) : e[RequiredKeys[i]] = good[j][RequiredKeys[i]]

IsSuffix(s, t) ==
    Len(s) <= Len(t) /\ SubSeq(t, Len(t) - Len(s) + 1, Len(t)) = s

\* C16: the timeline is append-only: after any sequence of TimelineStore
\* operations every entry ever appended is still read back, unmodified and in
\* its order, so each list read extends every list read earlier.
C16_AppendOnly ==
    /\ \A i \in 1..Len(reads) : ReadsBack(reads[i], reads[i].seen)
    /\ \A i, j \in 1..Len(reads) : i < j => IsSuffix(reads[i].val, reads[j].val)

TimelineFields == {"run_id", "seed", "scene_snapshot", "patch_summary", "output_urls", "timestamp"}

\* C18: every line any writer (add_entry, the /generate route) puts into the
\* timeline is a JSON object with exactly the TimelineEntry fields, so that
\* get_all_entries succeeds and returns one entry per append.
C18_LogLines ==
    /\ \A i \in 1..Len(ReadLines(file.text, <<>>)) :
          LET d == json_loads(strip(ReadLines(file.text, <<>>)[i]))
          IN  d.ok /\ IsDict(d.val) /\ DOMAIN d.val.v = TimelineFields
    /\ \A i \in 1..Len(reads) : ~reads[i].raised /\ Len(reads[i].val) = reads[i].seen

\* how often a line occurs in a sequence of lines
Occurrences(line, lines) == Cardinality({i \in 1..Len(lines) : lines[i] = line})

\* C17: concurrent appends are serialized: when two or more writers append
\* to timeline.jsonl at the same time, in every interleaving the file holds
\* afterwards exactly one complete, uncorrupted line per append, none lost
\* and no two records mixed within a line.
C17_SerializedAppends ==
    (Len(writers) >= 2 /\ \A w \in 1..Len(writers) : writers[w].left = <<>>) =>
        LET lines == ReadLines(file.text, <<>>)
            written == [w \in 1..Len(writers) |-> writers[w].line]
        IN  /\ Len(lines) = Len(writers)
            /\ \A w \in 1..Len(writers) :
                  Occurrences(written[w], lines) = Occurrences(written[w], written)

\* an operation as the claim wants it: a mapping with a valid op and a str path
WellFormed(op) ==
    /\ IsDict(op)
    /\ {"op", "path"} \subseteq DOMAIN op.v
    /\ op.v["op"].t = "str" /\ op.v["op"].v \in {"add", "remove", "replace", "move", "copy", "test"}
    /\ op.v["path"].t = "str"

LacksPath(op) == IsDict(op) /\ "path" \notin DOMAIN op.v

\* the index of the first operation that is not well-formed
FirstOffending(ops) == CHOOSE i \in 1..Len(ops) :
                          ~WellFormed(ops[i]) /\ \A j \in 1..(i - 1) : WellFormed(ops[j])

\* the error names operation i: it shows the operation or its position
Names(err, ops, i) == err.shows = ops[i] \/ err.shows = PyInt(i - 1) \/ err.shows = PyInt(i)

\* C19: validate_patch_operations returns true for every patch whose
\* operations are all mappings with a valid op and a str path (whether or not
\* the path resolves); a patch with an operation that lacks path fails, the
\* failure is for the first offending operation in patch order, and the
\* reported violation names that operation.
C19_ValidatePatch ==
    calls = <<"validate_patch_operations">> =>
        /\ (\A i \in 1..Len(patch) : WellFormed(patch[i]))
              => ~ret.raised /\ ret.val = PyBool(TRUE)
        /\ (\E i \in 1..Len(patch) : LacksPath(patch[i]))
              => /\ ret.raised
                 /\ ret.val = validate_patch_operations(<<patch[FirstOffending(patch)]>>).val
                 /\ Names(ret.val, patch, FirstOffending(patch))

\* the scene has camera and lighting.key sections
HasCameraAndKey(doc) ==
    /\ IsDict(doc) /\ {"camera", "lighting"} \subseteq DOMAIN doc.v
    /\ IsDict(doc.v["camera"])
    /\ IsDict(doc.v["lighting"]) /\ "key" \in DOMAIN doc.v["lighting"].v
    /\ IsDict(doc.v["lighting"].v["key"])

\* the keywords of every category but zoom-in and brighten
OtherCategoryWords ==
    ZoomOutWords \cup TiltWords \cup DarkenWords \cup WarmWords \cup CoolWords
        \cup SaturateWords \cup DesaturateWords \cup ContrastWords \cup ShallowWords
        \cup DeepWords \cup {LockWord}

\* a zoom-in keyword, a brighten keyword and no keyword of another category
ZoomInAndBrightenOnly(ins) ==
    /\ AnyWord(lower(ins), ZoomInWords)
    /\ AnyWord(lower(ins), BrightenWords)
    /\ ~AnyWord(lower(ins), OtherCategoryWords)

ZoomedAndBrightened ==
    /\ ~ret.raised
    /\ HasCameraAndKey(ret0)
    /\ "lens_mm" \in DOMAIN ret0.v["camera"].v
    /\ PyEq(ret0.v["camera"].v["lens_mm"], PyInt(100))
    /\ "intensity" \in DOMAIN ret0.v["lighting"].v["key"].v
    /\ PyEq(ret0.v["lighting"].v["key"].v["intensity"], PyFloat(95))
    /\ ret.val.diff_summary = <<"Modified: ", "camera", "lighting">>
    /\ ret.val.confidence = PyFloat(90)

\* C20: for any scene that has camera and lighting.key sections, an
\* instruction that contains a zoom-in keyword and a brighten keyword and no
\* keyword of another category yields updated_scene with camera.lens_mm = 100
\* and lighting.key.intensity = 0.95, diff_summary "Modified: camera,
\* lighting" and confidence 0.9.
C20_ZoomInAndBrighten ==
    (/\ calls = <<"translate_with_rules">>
     /\ HasCameraAndKey(scene0)
     /\ ZoomInAndBrightenOnly(instruction)) => ZoomedAndBrightened

\* "zoom in and brighten the key light" on a scene with camera.lens_mm = 50
\* and lighting.key.intensity = 0.85
C20_Witness ==
    /\ calls = <<"translate_with_rules">>
    /\ scene0 = SceneFull
    /\ ZoomInAndBrightenOnly(instruction)
    /\ Len(instruction) = 34
    /\ Contains(instruction, <<"k", "e", "y", " ", "l", "i", "g", "h", "t">>)
    /\ scene0.v["camera"].v["lens_mm"] = PyInt(50)
    /\ scene0.v["lighting"].v["key"].v["intensity"] = PyFloat(85)
    /\ ZoomedAndBrightened

\* the keywords of the if/elif groups, and the words of the two lock rules
GroupWords ==
    ZoomInWords \cup ZoomOutWords \cup TiltWords \cup BrightenWords \cup DarkenWords
        \cup WarmWords \cup CoolWords \cup SaturateWords \cup DesaturateWords
        \cup ContrastWords \cup ShallowWords \cup DeepWords

NoRuleKeyword(ins) ==
    ~AnyWord(lower(ins), GroupWords \cup {LockWord, CompositionWord, SubjectWord})

\* at least one rule fired
SomeRuleFired(ins) ==
    \/ AnyWord(lower(ins), GroupWords)
    \/ Contains(lower(ins), LockWord) /\ Contains(lower(ins), CompositionWord)
    \/ Contains(lower(ins), LockWord) /\ Contains(lower(ins), SubjectWord)

\* C21: for every instruction that contains none of the rule keywords and
\* every scene, translate_with_rules does not fail and returns an
\* updated_scene deep-equal to the input scene, an empty patch, diff_summary
\* "No changes" and confidence 0.5; confidence is 0.9 and diff_summary starts
\* with "Modified:" exactly when at least one rule fired.
C21_NoKeywordNoChange ==
    calls = <<"translate_with_rules">> =>
        /\ ~ret.raised
        /\ NoRuleKeyword(instruction) =>
              /\ ret0 = scene0
              /\ ret.val.patch = <<>>
              /\ ret.val.diff_summary = <<"No changes">>
              /\ ret.val.confidence = PyFloat(50)
        /\ (ret.val.confidence = PyFloat(90)) <=> SomeRuleFired(instruction)
        /\ (Head(ret.val.diff_summary) = "Modified: ") <=> SomeRuleFired(instruction)

\* "say hello" on the scene with every section
C21_Witness ==
    /\ calls = <<"translate_with_rules">>
    /\ instruction = <<"s", "a", "y", " ", "h", "e", "l", "l", "o">>
    /\ scene0 = SceneFull
    /\ ret0 = SceneFull
    /\ ret.val.patch = <<>>
    /\ ret.val.confidence = PyFloat(50)

\* the value at a path of keys, or NoValue when the path leaves the mappings
RECURSIVE LeafAt(_, _)
LeafAt(doc, path) ==
    IF path = <<>> THEN doc
    ELSE IF IsDict(doc) /\ Head(path) \in DOMAIN doc.v THEN LeafAt(doc.v[Head(path)], Tail(path))
    ELSE NoValue

Branch(words, path, value) == [words |-> words, path |-> path, value |-> value]

\* the mutually exclusive groups, their branches in priority order
ExclusiveGroups ==
    {<<Branch(ZoomInWords, <<"camera", "lens_mm">>, PyInt(100)),
       Branch(ZoomOutWords, <<"camera", "lens_mm">>, PyInt(35)),
       Branch(TiltWords, <<"camera", "tilt">>, PyInt(-15))>>,
     <<Branch(BrightenWords, <<"lighting", "key", "intensity">>, PyFloat(95)),
       Branch(DarkenWords, <<"lighting", "key", "intensity">>, PyFloat(65))>>,
     <<Branch(WarmWords, <<"color", "temperature">>, PyInt(75)),
       Branch(CoolWords, <<"color", "temperature">>, PyInt(30))>>,
     <<Branch(SaturateWords, <<"color", "saturation">>, PyFloat(95)),
       Branch(DesaturateWords, <<"color", "saturation">>, PyFloat(40))>>,
     <<Branch(ShallowWords, <<"camera", "depth_of_field">>, PyFloat(90)),
       Branch(DeepWords, <<"camera", "depth_of_field">>, PyFloat(20))>>}

\* the earliest branch of the group with a keyword in the text, 0 if none
EarliestBranch(g, text) ==
    IF \E k \in 1..Len(g) : AnyWord(text, g[k].words)
    THEN CHOOSE k \in 1..Len(g) :
            AnyWord(text, g[k].words) /\ \A j \in 1..(k - 1) : ~AnyWord(text, g[j].words)
    ELSE 0

\* in the result the group's earliest matching branch took effect and no other
OnlyEarliestTookEffect(g, text, before, after) ==
    LET k == EarliestBranch(g, text)
    IN  /\ k # 0 => LeafAt(after, g[k].path) = g[k].value
        /\ \A j \in 1..Len(g) :
              (k = 0 \/ g[j].path # g[k].path)
                  => LeafAt(after, g[j].path) = LeafAt(before, g[j].path)

\* C22: within each mutually exclusive group at most one branch takes effect
\* per instruction, the earliest one having a keyword that occurs in the
\* lower-cased instruction, and branches of different groups take effect
\* together; an instruction with a zoom-in keyword sets camera.lens_mm to 100
\* whatever zoom-out or tilt keywords it also contains.
C22_RulePriority ==
    calls = <<"translate_with_rules">> =>
        /\ ~ret.raised
        /\ \A g \in ExclusiveGroups : OnlyEarliestTookEffect(g, lower(instruction), scene0, ret0)
        /\ AnyWord(lower(instruction), ZoomInWords)
              => LeafAt(ret0, <<"camera", "lens_mm">>) = PyInt(100)

\* a zoom-out keyword before a zoom-in keyword, and a lighting keyword
C22_Witness ==
    /\ calls = <<"translate_with_rules">>
    /\ scene0 = SceneFull
    /\ Len(instruction) > 5
    /\ SubSeq(instruction, 1, 5) = <<"w", "i", "d", "e", "r">>
    /\ AnyWord(lower(instruction), ZoomInWords)
    /\ AnyWord(lower(instruction), BrightenWords)
    /\ LeafAt(ret0, <<"camera", "lens_mm">>) = PyInt(100)
    /\ LeafAt(ret0, <<"camera", "tilt">>) = PyInt(0)
    /\ LeafAt(ret0, <<"lighting", "key", "intensity">>) = PyFloat(95)

\* the paths of the values of a document that are not mappings
RECURSIVE LeafPaths(_)
LeafPaths(doc) ==
    IF IsDict(doc)
    THEN UNION {{<<k>> \o p : p \in LeafPaths(doc.v[k])} : k \in DOMAIN doc.v}
    ELSE {<<>>}

\* the leaves the rules set
RuleLeaves ==
    {<<"camera", "lens_mm">>, <<"camera", "tilt">>, <<"camera", "depth_of_field">>,
     <<"lighting", "key", "intensity">>,
     <<"color", "temperature">>, <<"color", "saturation">>, <<"color", "contrast">>,
     <<"constraints", "lock_composition">>, <<"constraints", "lock_subject_identity">>}

\* C23: the merge changes only the leaf fields that fired rules set: every
\* other field of the pre-call scene is present with the same value in
\* updated_scene, the sibling keys of a touched section and the other keys of
\* lighting.key after a brighten or darken instruction included.
C23_MergeKeepsOtherFields ==
    calls = <<"translate_with_rules">> =>
        \A p \in LeafPaths(scene0) \ RuleLeaves : LeafAt(ret0, p) = LeafAt(scene0, p)

\* a JSON number: an integer or a float, not a boolean
IsJsonNumber(x) == x.t \in {"int", "float"}

\* the paths, reachable through mappings on both sides, whose values are JSON
\* numbers on both sides and numerically unequal
NumericChanges(before, after) ==
    {p \in LeafPaths(before) \cap LeafPaths(after) :
        /\ IsJsonNumber(LeafAt(before, p)) /\ IsJsonNumber(LeafAt(after, p))
        /\ LeafAt(before, p).v # LeafAt(after, p).v}

\* C24: get_numeric_differences returns exactly one entry (old value, new
\* value) for each path reachable through mappings on both sides whose values
\* on both sides are JSON numbers and numerically unequal; an integer and a
\* float of the same magnitude give no entry, and neither does a leaf that is
\* not a number on both sides (a string, null, or a boolean lock flag).
C24_NumericDifferences ==
    calls = <<"get_numeric_differences">> =>
        /\ ~ret.raised
        /\ ret.val = {[path |-> p, orig |-> LeafAt(scene0, p), new |-> LeafAt(ret0, p)] :
                         p \in NumericChanges(scene0, ret0)}

\* C25: the five domain buckets of get_impact_summary partition
\* modified_keys: each modified key is in exactly one bucket, no bucket holds
\* another key, and total_changes is the number of modified keys and the sum
\* of the bucket sizes.
C25_BucketsPartition ==
    calls = <<"get_impact_summary">> =>
        /\ ~ret.raised
        /\ LET r == ret.val
               buckets == r.changes_by_domain
           IN  /\ DOMAIN buckets = {"camera", "lighting", "color", "constraints", "other"}
               /\ \A k \in r.modified_keys :
                     Cardinality({d \in DOMAIN buckets : k \in buckets[d]}) = 1
               /\ \A d \in DOMAIN buckets : buckets[d] \subseteq r.modified_keys
               /\ r.total_changes = Cardinality(r.modified_keys)
               /\ r.total_changes = SumOver(DOMAIN buckets, [d \in DOMAIN buckets |-> Cardinality(buckets[d])])

\* the external dependency of the served request was unavailable: the call
\* failed, timed out, was answered with a non-success status or with no
\* JSON, or the integration is disabled
DependencyUnavailable ==
    served # NoValue /\ (~served.n8n_enabled \/ served.response \in FailedResponses)

\* C26: /translate never hard-fails only because an external dependency is
\* unavailable: when the orchestrator call fails, times out, returns a
\* non-success status or is disabled, the caller still receives a successful
\* response carrying the rule-based translation of the instruction.
C26_TranslateFallsBack ==
    (calls = <<"translate">> /\ DependencyUnavailable) =>
        /\ ~ret.raised
        /\ ret.val.instruction = served.body.instruction
        /\ ret.val.updated_scene =
              RulesResult(served.body.instruction, served.body.current_scene, KeyList).updated_scene

\* the timeline lines the file holds, parsed
LoggedLines ==
    [i \in 1..Len(ReadLines(file.text, <<>>)) |->
        json_loads(strip(ReadLines(file.text, <<>>)[i]))]

\* C27: /generate never propagates a generation-backend failure as a hard
\* error: when the orchestrator or image backend fails, times out or returns
\* a non-success status, the caller still receives a successful response
\* referencing a placeholder artifact, and a timeline line is appended for
\* the run.
C27_GenerateFallsBack ==
    (/\ calls = <<"generate_images">>
     /\ served # NoValue /\ served.n8n_enabled /\ served.response \in FailedResponses) =>
        /\ ~ret.raised
        /\ ret.val.output_urls.t = "list" /\ ret.val.output_urls.v # <<>>
        /\ Len(LoggedLines) = 1
        /\ LoggedLines[1].ok /\ LoggedLines[1].val.v["run_id"] = ret.val.run_id

\* the request carries a patch with apply_patch = true of which some
\* operation does not apply to base_scene
PatchDoesNotApply(body) ==
    /\ body.apply_patch
    /\ body.patch.t = "list" /\ body.patch.v # <<>>
    /\ ~JsonPatchRun(body.base_scene, body.patch.v).ok

\* C28: a directly supplied patch that cannot be applied is surfaced, never
\* silently dropped: the caller receives an error identifying the failure,
\* and no generation request is sent for the unpatched base scene.
C28_PatchFailureSurfaced ==
    (/\ calls = <<"generate_images">>
     /\ served # NoValue /\ served.n8n_enabled /\ PatchDoesNotApply(served.body)) =>
        /\ ret.raised
        /\ \A i \in 1..Len(outbox) :
              ~(outbox[i].workflow = "generate" /\ outbox[i].base_scene = served.body.base_scene)

\* C30: for every /generate request, one with seed = 0 and one without a
\* seed included, the seed sent to the generation workflow, the seed
\* recorded in the timeline line of the run and the seed returned to the
\* caller are the same integer, and a caller-supplied seed is used unchanged.
C30_SeedConsistency ==
    (calls = <<"generate_images">> /\ ~ret.raised) =>
        /\ Len(outbox) = 1 /\ Len(LoggedLines) = 1
        /\ outbox[1].seed = ret.val.seed
        /\ LoggedLines[1].val.v["seed"] = ret.val.seed
        /\ served.body.seed # PyNone => ret.val.seed = served.body.seed

\* what holds of generate_with_fibo_or_demo at every moment
FiboSafe ==
    /\ fibo.poll_count <= 120
    /\ ~fibo.ret.raised
    /\ fibo.pc = "done" =>
          \/ fibo.ret.val = PyStr(ImagePath) /\ fibo.downloaded
          \/ fibo.ret.val = PyStr(DemoPath) /\ ~fibo.downloaded

====
